---- MODULE Spec2Model ----
(***************************************************************************)
(* GC log normalization and anomaly-oracle pipeline of TestFrameWork:      *)
(*   - the collector parsers of RunEnv/src/GCLogParser (base, Serial,      *)
(*     Parallel, G1, ZGC, Shenandoah, Epsilon),                            *)
(*   - the oracle engine of RunEnv/src/ResAnalyzer.py,                     *)
(*   - the log analyzer of RunEnv/src/GCLogAnalyzer.py.                    *)
(*   - the JDK variant loop of RunEnv/src/Executor.py,                     *)
(*   - the oracle functions of RunEnv/src/Test_oracles,                    *)
(*   - the heap size normalizer of the base parser.                        *)
(*                                                                         *)
(* Durations are Python floats in milliseconds; the model keeps them as    *)
(* exact integers in microseconds (1 = 0.001 ms), so sums are exact.       *)
(* Heap sizes are integers in MB, as in the code.                          *)
(***************************************************************************)
EXTENDS Integers, Sequences, FiniteSets, TLC

\* ------------------------------------------------------------------ bounds
\* Longest log (number of lines) fed to a parser between two resets.
MaxLen == 3
\* Largest number of reset() calls on one parser instance.
MaxResets == 1
\* Largest number of result files in one scanned directory.
MaxFiles == 2
\* Largest number of logs handed to the log analyzer in one run.
MaxLogs == 3
\* Largest number of results one class file's differential test records.
MaxVariants == 4
\* Largest number of runs recorded in one result file given to the oracles.
MaxRuns == 3

\* ------------------------------------------------------- program constants
\* epsilon_parser.py: "if stw_time > 0.1", in microseconds.
NoiseFloorUs == 100

\* ----------------------------------------------------------------- helpers
Max2(a, b) == IF a >= b THEN a ELSE b

Max3(a, b, c) == Max2(Max2(a, b), c)

\* Python's "sub in s" on strings.
Contains(s, sub) ==
    \E i \in 1..(Len(s) - Len(sub) + 1) : SubSeq(s, i, i + Len(sub) - 1) = sub

\* A Python dict is a function; {} is the function of empty domain.
EmptyDict == <<>>

Put(d, k, v) == [x \in (DOMAIN d) \cup {k} |-> IF x = k THEN v ELSE d[x]]

RECURSIVE SumOver(_, _)
\* Sum of f[k] over the keys k in S.
SumOver(f, S) ==
    IF S = {} THEN 0
    ELSE LET k == CHOOSE x \in S : TRUE
         IN  f[k] + SumOver(f, S \ {k})

RECURSIVE MaxOver(_, _)
\* Python's max(...) of f[k] over the keys k in S, 0 for no key.
MaxOver(f, S) ==
    IF S = {} THEN 0
    ELSE LET k == CHOOSE x \in S : TRUE
         IN  Max2(f[k], MaxOver(f, S \ {k}))

\* ------------------------------------------------------------- log lines
(***************************************************************************)
(* A log line is a record naming the shape of its text and the fields the  *)
(* parsers' patterns capture from it:                                      *)
(*   heap_max_capacity  "Heap Max Capacity: <a><ptype>"   (ptype: G or M)  *)
(*   max_capacity       "Max Capacity: <a>M"                               *)
(*   pause              "GC(<id>) Pause <ptype> <dur>ms"                   *)
(*   pause_heap         "GC(<id>) Pause <ptype> <a>M-><b>M(<c>M) <dur>ms"  *)
(*   phase              "GC(<id>) <ptype> <dur>ms"   (no "Pause" keyword)  *)
(*   zheap              " ZHeap  used <a>M, capacity <b>M, max capacity    *)
(*                        <c>M"                                            *)
(*   shen_heap          " <a>M max, <b>M soft max, <c>M committed, <d>M    *)
(*                        used"                                            *)
(*   eps_heap           "Heap: <a>M reserved, <b>M (6.25%) committed, <c>K *)
(*                        (0.04%) used"                                    *)
(*   resizeable         "Resizeable heap; starting at <a>M, max: <b>M"     *)
(*   heap_address       "Heap address: 0x..., size: <a> MB, ..."           *)
(*   exit_total         " garbage-first heap   total <a>K, used <b>K [..." *)
(*   other              any text no pattern of any parser matches          *)
(* dur is in microseconds.                                                 *)
(***************************************************************************)
Line(kind, id, ptype, a, b, c, d, dur) ==
    [kind |-> kind, id |-> id, ptype |-> ptype,
     a |-> a, b |-> b, c |-> c, d |-> d, dur |-> dur]

HeapMaxCapacityLine(n, unit) == Line("heap_max_capacity", 0, unit, n, 0, 0, 0, 0)

MaxCapacityLine(n) == Line("max_capacity", 0, "M", n, 0, 0, 0, 0)

PauseLine(id, ptype, dur) == Line("pause", id, ptype, 0, 0, 0, 0, dur)

PauseHeapLine(id, ptype, before, after, cap, dur) ==
    Line("pause_heap", id, ptype, before, after, cap, 0, dur)

PhaseLine(id, ptype, dur) == Line("phase", id, ptype, 0, 0, 0, 0, dur)

ZHeapLine(used, cap, maxcap) == Line("zheap", 0, "", used, cap, maxcap, 0, 0)

ShenHeapLine(maxcap, softmax, committed, used) ==
    Line("shen_heap", 0, "", maxcap, softmax, committed, used, 0)

EpsHeapLine(reserved, committed, usedK) ==
    Line("eps_heap", 0, "", reserved, committed, usedK, 0, 0)

ResizeableLine(start, maxcap) == Line("resizeable", 0, "", start, maxcap, 0, 0, 0)

HeapAddressLine(size) == Line("heap_address", 0, "", size, 0, 0, 0, 0)

ExitTotalLine(totalK, usedK) == Line("exit_total", 0, "", totalK, usedK, 0, 0, 0)

OtherLine == Line("other", 0, "", 0, 0, 0, 0, 0)

\* The text "<a>M-><b>M(<c>M)" of a heap transition.
HeapText(l) ==
    ToString(l.a) \o "M->" \o ToString(l.b) \o "M(" \o ToString(l.c) \o "M)"

\* ----------------------------------------------------------- base parser
\* BaseGCParser.__init__ and the subclasses' __init__: a fresh parser.
NewParser ==
    [gc_count            |-> 0,
     total_stw_time      |-> 0,
     max_stw_time        |-> 0,
     max_heap_usage      |-> 0,
     gc_type_breakdown   |-> EmptyDict,
     max_heap_capacity   |-> 0,
     committed_heap_size |-> 0,
     gc_cycles           |-> EmptyDict]

\* Mutant of update_gc_stats: the breakdown entry's time is assigned, not
\* accumulated.
update_gc_stats_BreakdownTimeAssigned(p, gc_subtype, stw_time, heap_before, heap_after) ==
    LET old == IF gc_subtype \in DOMAIN p.gc_type_breakdown
               THEN p.gc_type_breakdown[gc_subtype]
               ELSE [count |-> 0, stw_time_ms |-> 0]
    IN  [p EXCEPT
           !.gc_count = @ + 1,
           !.total_stw_time = @ + stw_time,
           !.max_stw_time = Max2(@, stw_time),
           !.max_heap_usage = Max2(@, Max2(heap_before, heap_after)),
           !.gc_type_breakdown =
               Put(@, gc_subtype,
                   [count |-> old.count + 1, stw_time_ms |-> stw_time])]

\* Mutant of update_gc_stats: the total STW time is assigned, not
\* accumulated.
update_gc_stats_TotalAssigned(p, gc_subtype, stw_time, heap_before, heap_after) ==
    LET old == IF gc_subtype \in DOMAIN p.gc_type_breakdown
               THEN p.gc_type_breakdown[gc_subtype]
               ELSE [count |-> 0, stw_time_ms |-> 0]
    IN  [p EXCEPT
           !.gc_count = @ + 1,
           !.total_stw_time = stw_time,
           !.max_stw_time = Max2(@, stw_time),
           !.max_heap_usage = Max2(@, Max2(heap_before, heap_after)),
           !.gc_type_breakdown =
               Put(@, gc_subtype,
                   [count |-> old.count + 1,
                    stw_time_ms |-> old.stw_time_ms + stw_time])]

\* BaseGCParser.update_gc_stats
update_gc_stats(p, gc_subtype, stw_time, heap_before, heap_after) ==
    LET old == IF gc_subtype \in DOMAIN p.gc_type_breakdown
               THEN p.gc_type_breakdown[gc_subtype]
               ELSE [count |-> 0, stw_time_ms |-> 0]
    IN  [p EXCEPT
           !.gc_count = @ + 1,
           !.total_stw_time = @ + stw_time,
           !.max_stw_time = Max2(@, stw_time),
           !.max_heap_usage = Max2(@, Max2(heap_before, heap_after)),
           !.gc_type_breakdown =
               Put(@, gc_subtype,
                   [count |-> old.count + 1,
                    stw_time_ms |-> old.stw_time_ms + stw_time])]

\* BaseGCParser.get_result
BaseGetResult(p) ==
    [total_gc_count    |-> p.gc_count,
     gc_stw_time_ms    |-> p.total_stw_time,
     max_stw_time_ms   |-> p.max_stw_time,
     max_heap_mb       |-> p.max_heap_usage,
     gc_type_breakdown |-> p.gc_type_breakdown]

\* BaseGCParser.reset: the five base accumulators only.
BaseReset(p) ==
    [p EXCEPT
       !.gc_count = 0,
       !.total_stw_time = 0,
       !.max_stw_time = 0,
       !.max_heap_usage = 0,
       !.gc_type_breakdown = EmptyDict]

\* What parse_log_line hands back: the parser after the call and the bool.
\* Mutant: every branch falls through to the final "return False".
Parsed_ReturnsFalse(p, ret) == [parser |-> p, ret |-> FALSE]

Parsed(p, ret) == [parser |-> p, ret |-> ret]

\* ------------------------------------------- text tests shared by parsers
\* '"Max Capacity:" in line'
HasMaxCapacityText(l) == l.kind \in {"heap_max_capacity", "max_capacity"}

\* re.search(r'Max Capacity:\s*(\d+)M', line): the unit must be M.
MaxCapacityMMatch(l) == HasMaxCapacityText(l) /\ l.ptype = "M"

\* r'GC\((\d+)\)\s+Pause\s+(.+?)\s+([\d.]+)ms$' (ZGC and Shenandoah): any
\* line "GC(id) Pause ... <d>ms", with or without a heap transition.
PausePatternMatch(l) == l.kind \in {"pause", "pause_heap"}

\* group(2) of that pattern: all the text between "Pause" and the duration.
PauseTypeText(l) ==
    IF l.kind = "pause_heap" THEN l.ptype \o " " \o HeapText(l) ELSE l.ptype

\* The cycle buffer's update, the same text in both pauseless parsers
\* (zgc_parser.py 53-65, shenandoah_parser.py 60-72).
RecordCyclePause(p, gc_id, gc_subtype, pause_time) ==
    LET cyc == IF gc_id \in DOMAIN p.gc_cycles
               THEN p.gc_cycles[gc_id]
               ELSE [pause_times |-> EmptyDict, total_time |-> 0]
        old == IF gc_subtype \in DOMAIN cyc.pause_times
               THEN cyc.pause_times[gc_subtype]
               ELSE 0
    IN  [p EXCEPT !.gc_cycles =
           Put(@, gc_id,
               [pause_times |-> Put(cyc.pause_times, gc_subtype, old + pause_time),
                total_time  |-> cyc.total_time + pause_time])]

\* ------------------------------------------------------------ ZGC parser
\* ZGCParser.parse_log_line: the sub-type of a pause.
ZgcSubtype(pause_type) ==
    IF Contains(pause_type, "Mark Start") THEN "Pause Mark Start"
    ELSE IF Contains(pause_type, "Mark End") THEN "Pause Mark End"
    ELSE IF Contains(pause_type, "Relocate Start") THEN "Pause Relocate Start"
    ELSE pause_type

\* ZGCParser.parse_log_line
ZgcParseLogLine(p, l) ==
    IF HasMaxCapacityText(l) THEN
        Parsed(IF MaxCapacityMMatch(l)
               THEN [p EXCEPT !.max_heap_capacity = l.a]
               ELSE p, FALSE)
    ELSE IF PausePatternMatch(l) THEN
        Parsed(RecordCyclePause(p, l.id, ZgcSubtype(PauseTypeText(l)), l.dur), TRUE)
    ELSE IF l.kind = "zheap" THEN
        Parsed([p EXCEPT !.max_heap_usage = Max2(@, l.a),
                         !.max_heap_capacity = Max2(@, l.c)], FALSE)
    ELSE Parsed(p, FALSE)

\* The sub-phase labels of all buffered cycles.
CycleLabels(cycles) == UNION {DOMAIN cycles[g].pause_times : g \in DOMAIN cycles}

\* The cycles that hold a pause of this label.
CyclesWith(cycles, t) == {g \in DOMAIN cycles : t \in DOMAIN cycles[g].pause_times}

\* Mutant of FinalMaxStwTime: the maximum of the cycle totals, as the loop
\* leaves it, is not overwritten.
FinalMaxStwTime_CycleTotals(cycles) ==
    MaxOver([g \in DOMAIN cycles |-> cycles[g].total_time], DOMAIN cycles)

\* max(all_single_pauses) if all_single_pauses else 0.0: all_single_pauses
\* holds one entry per (cycle, label), the summed time of that label in
\* that cycle. It overwrites the maximum of the cycle totals computed in
\* the loop.
FinalMaxStwTime(cycles) ==
    MaxOver([g \in DOMAIN cycles |->
               MaxOver(cycles[g].pause_times, DOMAIN cycles[g].pause_times)],
            DOMAIN cycles)

\* type_stats -> gc_type_breakdown: per label, one count for each cycle
\* holding it and the label's summed time.
FinalBreakdown(cycles) ==
    [t \in CycleLabels(cycles) |->
        [count       |-> Cardinality(CyclesWith(cycles, t)),
         stw_time_ms |-> SumOver([g \in CyclesWith(cycles, t) |->
                                     cycles[g].pause_times[t]],
                                 CyclesWith(cycles, t))]]

\* Mutant of ZgcFinalizeGcStats: every sub-phase entry of every cycle is
\* counted as a GC event.
ZgcFinalizeGcStats_CountsSubPhases(p) ==
    [p EXCEPT
       !.gc_count = SumOver([g \in DOMAIN p.gc_cycles |->
                               Cardinality(DOMAIN p.gc_cycles[g].pause_times)],
                            DOMAIN p.gc_cycles),
       !.total_stw_time = SumOver([g \in DOMAIN p.gc_cycles |->
                                      p.gc_cycles[g].total_time],
                                  DOMAIN p.gc_cycles),
       !.max_stw_time = FinalMaxStwTime(p.gc_cycles),
       !.gc_type_breakdown = FinalBreakdown(p.gc_cycles)]

\* Mutant of ZgcFinalizeGcStats: the count and the total are not zeroed
\* before the cycles are added up.
ZgcFinalizeGcStats_AddsToOld(p) ==
    [p EXCEPT
       !.gc_count = @ + Cardinality(DOMAIN p.gc_cycles),
       !.total_stw_time = @ + SumOver([g \in DOMAIN p.gc_cycles |->
                                          p.gc_cycles[g].total_time],
                                      DOMAIN p.gc_cycles),
       !.max_stw_time = FinalMaxStwTime(p.gc_cycles),
       !.gc_type_breakdown = FinalBreakdown(p.gc_cycles)]

\* ZGCParser._finalize_gc_stats
ZgcFinalizeGcStats(p) ==
    [p EXCEPT
       !.gc_count = Cardinality(DOMAIN p.gc_cycles),
       !.total_stw_time = SumOver([g \in DOMAIN p.gc_cycles |->
                                      p.gc_cycles[g].total_time],
                                  DOMAIN p.gc_cycles),
       !.max_stw_time = FinalMaxStwTime(p.gc_cycles),
       !.gc_type_breakdown = FinalBreakdown(p.gc_cycles)]

\* Mutant of PauselessHeapFallback: a declared capacity is preferred to the
\* observed usage.
PauselessHeapFallback_CapacityFirst(p, result) ==
    IF p.max_heap_capacity > 0
    THEN [result EXCEPT !.max_heap_mb = p.max_heap_capacity]
    ELSE [result EXCEPT !.max_heap_mb = p.max_heap_usage]

\* The max_heap_mb fallback of ZGCParser.get_result and
\* ShenandoahGCParser.get_result (the same text).
PauselessHeapFallback(p, result) ==
    IF p.max_heap_usage = 0 /\ p.max_heap_capacity > 0
    THEN [result EXCEPT !.max_heap_mb = p.max_heap_capacity]
    ELSE IF p.max_heap_usage > 0
    THEN [result EXCEPT !.max_heap_mb = p.max_heap_usage]
    ELSE result

\* What get_result hands back: the parser after the call and the record.
Got(p, rec) == [parser |-> p, rec |-> rec]

\* ZGCParser.get_result
ZgcGetResult(p) ==
    LET q == ZgcFinalizeGcStats(p)
    IN  Got(q, PauselessHeapFallback(q, BaseGetResult(q)))

\* Mutant of ZgcReset: the cycle buffer is not cleared.
ZgcReset_KeepsCycles(p) == BaseReset(p)

\* ZGCParser.reset
ZgcReset(p) == [BaseReset(p) EXCEPT !.gc_cycles = EmptyDict]

\* ----------------------------------------------------- Shenandoah parser
\* ShenandoahGCParser.parse_log_line: the sub-type of a pause.
ShenSubtype(pause_type) ==
    IF Contains(pause_type, "Init Mark") THEN "Init Mark (unload classes)"
    ELSE IF Contains(pause_type, "Final Mark") THEN "Final Mark (unload classes)"
    ELSE IF Contains(pause_type, "Final Roots") THEN "Final Roots"
    ELSE IF Contains(pause_type, "Concurrent") THEN "Concurrent GC"
    ELSE pause_type

\* ShenandoahGCParser.parse_log_line. The last branch ("Heap", "used" and
\* "committed" in the line) needs "<n>M used, <n>M committed", which no
\* line shape of the model carries.
ShenParseLogLine(p, l) ==
    IF HasMaxCapacityText(l) THEN
        Parsed(IF MaxCapacityMMatch(l)
               THEN [p EXCEPT !.max_heap_capacity = l.a,
                              !.max_heap_usage = Max2(@, l.a)]
               ELSE p, FALSE)
    ELSE IF PausePatternMatch(l) THEN
        Parsed(RecordCyclePause(p, l.id, ShenSubtype(PauseTypeText(l)), l.dur), TRUE)
    ELSE IF l.kind = "shen_heap" THEN
        Parsed([p EXCEPT !.max_heap_usage = Max3(@, l.d, l.c),
                         !.max_heap_capacity = Max3(@, l.a, l.b)], FALSE)
    ELSE Parsed(p, FALSE)

\* ShenandoahGCParser._finalize_gc_stats (the text of ZGC's)
ShenFinalizeGcStats(p) ==
    [p EXCEPT
       !.gc_count = Cardinality(DOMAIN p.gc_cycles),
       !.total_stw_time = SumOver([g \in DOMAIN p.gc_cycles |->
                                      p.gc_cycles[g].total_time],
                                  DOMAIN p.gc_cycles),
       !.max_stw_time = FinalMaxStwTime(p.gc_cycles),
       !.gc_type_breakdown = FinalBreakdown(p.gc_cycles)]

\* ShenandoahGCParser.get_result
ShenGetResult(p) ==
    LET q == ShenFinalizeGcStats(p)
    IN  Got(q, PauselessHeapFallback(q, BaseGetResult(q)))

\* ShenandoahGCParser.reset
ShenReset(p) == [BaseReset(p) EXCEPT !.gc_cycles = EmptyDict]

\* ---------------------------------------------------------- Serial parser
\* '"Heap Max Capacity:" in line' and the G / M patterns under it
\* (serial_parser.py 23-31, the same text in parallel_parser.py 23-31).
HeapMaxCapacityBranch(p, l) ==
    IF l.ptype = "G" THEN [p EXCEPT !.max_heap_capacity = l.a * 1024]
    ELSE IF l.ptype = "M" THEN [p EXCEPT !.max_heap_capacity = l.a]
    ELSE p

\* SerialGCParser.parse_log_line: the sub-type of an event.
SerialSubtype(gc_type) ==
    IF Contains(gc_type, "Young") THEN "Young GC"
    ELSE IF Contains(gc_type, "Full") THEN "Full GC"
    ELSE gc_type

\* group(2) of r'GC\((\d+)\)\s+(.+?)\s+...': the text after "GC(id)", the
\* word "Pause" included.
SerialTypeText(l) == IF l.kind = "phase" THEN l.ptype ELSE "Pause " \o l.ptype

\* SerialGCParser.parse_log_line. The heap_pattern branch (DefNew, Tenured,
\* "eden space" ... lines) matches no line shape of the model.
SerialParseLogLine(p, l) ==
    IF l.kind = "heap_max_capacity" THEN
        Parsed(HeapMaxCapacityBranch(p, l), FALSE)
    ELSE IF l.kind = "pause_heap" THEN
        LET q == update_gc_stats(p, SerialSubtype(SerialTypeText(l)), l.dur, l.a, l.b)
        IN  Parsed([q EXCEPT !.max_heap_usage = Max2(@, l.c)], TRUE)
    ELSE IF l.kind \in {"pause", "phase"} THEN
        \* simple_gc_pattern: a GC id and a duration, no heap transition
        Parsed(update_gc_stats(p, SerialSubtype(SerialTypeText(l)), l.dur, 0, 0), TRUE)
    ELSE Parsed(p, FALSE)

\* The fallback of SerialGCParser.get_result and ParallelGCParser.get_result.
CapacityFallback(p, result) ==
    IF p.max_heap_usage = 0 /\ p.max_heap_capacity > 0
    THEN [result EXCEPT !.max_heap_mb = p.max_heap_capacity]
    ELSE result

\* SerialGCParser.get_result
SerialGetResult(p) == Got(p, CapacityFallback(p, BaseGetResult(p)))

\* -------------------------------------------------------- Parallel parser
\* ParallelGCParser.parse_log_line: the sub-type of an event.
ParallelSubtype(gc_type) ==
    IF Contains(gc_type, "Young") THEN "Young GC"
    ELSE IF Contains(gc_type, "Full") THEN "Full GC"
    ELSE IF Contains(gc_type, "Old") \/ Contains(gc_type, "Major") THEN "Old GC"
    ELSE gc_type

\* ParallelGCParser.parse_log_line. The PSYoungGen and ParOldGen branches
\* match no line shape of the model.
ParallelParseLogLine(p, l) ==
    IF l.kind = "heap_max_capacity" THEN
        Parsed(HeapMaxCapacityBranch(p, l), FALSE)
    ELSE IF l.kind = "pause_heap" THEN
        LET q == update_gc_stats(p, ParallelSubtype(l.ptype), l.dur, l.a, l.b)
        IN  Parsed([q EXCEPT !.max_heap_usage = Max2(@, l.c)], TRUE)
    ELSE IF l.kind = "exit_total" THEN
        Parsed([p EXCEPT !.max_heap_usage = Max3(@, l.a \div 1024, l.b \div 1024)],
               FALSE)
    ELSE Parsed(p, FALSE)

\* ParallelGCParser.get_result
ParallelGetResult(p) == Got(p, CapacityFallback(p, BaseGetResult(p)))

\* -------------------------------------------------------------- G1 parser
\* Mutant of G1Subtype: the event label is kept as the line gives it.
G1Subtype_Raw(gc_type) == gc_type

\* G1GCParser.parse_log_line: the sub-type of an event.
G1Subtype(gc_type) ==
    IF Contains(gc_type, "Young (Normal)") THEN "Young GC (Normal)"
    ELSE IF Contains(gc_type, "Young (Concurrent Start)")
    THEN "Young GC (Concurrent Start)"
    ELSE IF Contains(gc_type, "Young (Mixed)") THEN "Young GC (Mixed)"
    ELSE IF Contains(gc_type, "Full") THEN "Full GC"
    ELSE IF Contains(gc_type, "Concurrent Cycle") THEN "Concurrent Cycle"
    ELSE gc_type

\* G1GCParser.parse_log_line. The "Eden regions:" branch matches no line
\* shape of the model.
G1ParseLogLine(p, l) ==
    IF l.kind = "heap_address" THEN
        Parsed([p EXCEPT !.max_heap_capacity = l.a], FALSE)
    ELSE IF l.kind = "pause_heap" THEN
        LET q == [p EXCEPT !.max_heap_usage = Max2(@, Max3(l.a, l.b, l.c))]
        IN  Parsed(update_gc_stats(q, G1Subtype(l.ptype), l.dur, l.a, l.b), TRUE)
    ELSE IF l.kind = "exit_total" THEN
        Parsed([p EXCEPT !.max_heap_usage = Max2(@, l.b \div 1024)], FALSE)
    ELSE Parsed(p, FALSE)

\* G1GCParser.get_result
G1GetResult(p) ==
    Got(p, [BaseGetResult(p) EXCEPT !.max_heap_mb =
               IF p.max_heap_usage = 0 /\ p.max_heap_capacity > 0
               THEN p.max_heap_capacity
               ELSE p.max_heap_usage])

\* --------------------------------------------------------- Epsilon parser
\* r'(pause|stop|safepoint).*?(\d+(?:\.\d+)?)ms' on the lower-cased line:
\* the lines with the word "Pause" and a duration. (The labels of the
\* model's phase lines hold none of the three words.)
EpsPausePatternMatch(l) == l.kind \in {"pause", "pause_heap"}

\* Mutant of EpsilonParseLogLine: a pause of exactly 0.1 ms is counted.
EpsilonParseLogLine_FloorCounted(p, l) ==
    IF l.kind = "resizeable" THEN
        Parsed([p EXCEPT !.max_heap_capacity = l.b,
                         !.max_heap_usage = Max3(@, l.b, l.a)], FALSE)
    ELSE IF l.kind = "heap_address" THEN
        Parsed([p EXCEPT !.max_heap_capacity = l.a,
                         !.max_heap_usage = Max2(@, l.a)], FALSE)
    ELSE IF l.kind = "eps_heap" THEN
        Parsed([p EXCEPT !.committed_heap_size = l.b,
                         !.max_heap_usage = Max2(@, l.b),
                         !.max_heap_capacity = Max3(@, l.b, l.a)], FALSE)
    ELSE IF HasMaxCapacityText(l) THEN
        Parsed(IF MaxCapacityMMatch(l)
               THEN [p EXCEPT !.max_heap_capacity = l.a,
                              !.max_heap_usage = Max2(@, l.a)]
               ELSE p, FALSE)
    ELSE IF EpsPausePatternMatch(l) /\ l.dur >= NoiseFloorUs THEN
        Parsed(update_gc_stats(p, "Non-GC Pause (pause)", l.dur, 0, 0), TRUE)
    ELSE IF l.kind = "zheap" THEN
        Parsed([p EXCEPT !.max_heap_usage = Max2(@, l.c),
                         !.max_heap_capacity = Max2(@, l.c)], FALSE)
    ELSE IF l.kind = "exit_total" THEN
        Parsed([p EXCEPT !.max_heap_usage = Max3(@, l.a \div 1024, l.b \div 1024),
                         !.max_heap_capacity = Max2(@, l.a \div 1024)], FALSE)
    ELSE Parsed(p, FALSE)

\* EpsilonGCParser.parse_log_line. A line with "Max Capacity:" never gets
\* to the two "Heap Max Capacity:" patterns below that branch.
EpsilonParseLogLine(p, l) ==
    IF l.kind = "resizeable" THEN
        Parsed([p EXCEPT !.max_heap_capacity = l.b,
                         !.max_heap_usage = Max3(@, l.b, l.a)], FALSE)
    ELSE IF l.kind = "heap_address" THEN
        Parsed([p EXCEPT !.max_heap_capacity = l.a,
                         !.max_heap_usage = Max2(@, l.a)], FALSE)
    ELSE IF l.kind = "eps_heap" THEN
        Parsed([p EXCEPT !.committed_heap_size = l.b,
                         !.max_heap_usage = Max2(@, l.b),
                         !.max_heap_capacity = Max3(@, l.b, l.a)], FALSE)
    ELSE IF HasMaxCapacityText(l) THEN
        Parsed(IF MaxCapacityMMatch(l)
               THEN [p EXCEPT !.max_heap_capacity = l.a,
                              !.max_heap_usage = Max2(@, l.a)]
               ELSE p, FALSE)
    ELSE IF EpsPausePatternMatch(l) /\ l.dur > NoiseFloorUs THEN
        Parsed(update_gc_stats(p, "Non-GC Pause (pause)", l.dur, 0, 0), TRUE)
    ELSE IF l.kind = "zheap" THEN
        \* "Heap" and "used" in the line, r'max capacity\s+(\d+)M'
        Parsed([p EXCEPT !.max_heap_usage = Max2(@, l.c),
                         !.max_heap_capacity = Max2(@, l.c)], FALSE)
    ELSE IF l.kind = "exit_total" THEN
        Parsed([p EXCEPT !.max_heap_usage = Max3(@, l.a \div 1024, l.b \div 1024),
                         !.max_heap_capacity = Max2(@, l.a \div 1024)], FALSE)
    ELSE Parsed(p, FALSE)

\* Mutant of EpsilonGetResult: the observed usage is preferred to the
\* committed size.
EpsilonGetResult_UsageFirst(p) ==
    LET r0 == BaseGetResult(p)
        r1 == IF p.gc_count = 0
              THEN [r0 EXCEPT !.total_gc_count = 0,
                              !.gc_stw_time_ms = 0,
                              !.max_stw_time_ms = 0,
                              !.gc_type_breakdown =
                                  [k \in {"EpsilonGC"} |->
                                      [count |-> 0, stw_time_ms |-> 0]]]
              ELSE r0
        r2 == IF p.max_heap_usage > 0
              THEN [r1 EXCEPT !.max_heap_mb = p.max_heap_usage]
              ELSE IF p.committed_heap_size > 0
              THEN [r1 EXCEPT !.max_heap_mb = p.committed_heap_size]
              ELSE IF p.max_heap_capacity > 0
              THEN [r1 EXCEPT !.max_heap_mb = p.max_heap_capacity]
              ELSE r1
    IN  Got(p, r2)

\* EpsilonGCParser.get_result
EpsilonGetResult(p) ==
    LET r0 == BaseGetResult(p)
        r1 == IF p.gc_count = 0
              THEN [r0 EXCEPT !.total_gc_count = 0,
                              !.gc_stw_time_ms = 0,
                              !.max_stw_time_ms = 0,
                              !.gc_type_breakdown =
                                  [k \in {"EpsilonGC"} |->
                                      [count |-> 0, stw_time_ms |-> 0]]]
              ELSE r0
        r2 == IF p.committed_heap_size > 0
              THEN [r1 EXCEPT !.max_heap_mb = p.committed_heap_size]
              ELSE IF p.max_heap_usage > 0
              THEN [r1 EXCEPT !.max_heap_mb = p.max_heap_usage]
              ELSE IF p.max_heap_capacity > 0
              THEN [r1 EXCEPT !.max_heap_mb = p.max_heap_capacity]
              ELSE r1
    IN  Got(p, r2)

\* ------------------------------------------------- the six parser variants
Variants == {"SerialGC", "ParallelGC", "G1GC", "ZGC", "ShenandoahGC", "EpsilonGC"}

PauselessVariants == {"ZGC", "ShenandoahGC"}

\* parser.parse_log_line(line), dispatched on the parser's class.
parse_log_line(v, p, l) ==
    CASE v = "SerialGC"     -> SerialParseLogLine(p, l)
      [] v = "ParallelGC"   -> ParallelParseLogLine(p, l)
      [] v = "G1GC"         -> G1ParseLogLine(p, l)
      [] v = "ZGC"          -> ZgcParseLogLine(p, l)
      [] v = "ShenandoahGC" -> ShenParseLogLine(p, l)
      [] v = "EpsilonGC"    -> EpsilonParseLogLine(p, l)

\* parser.get_result(), dispatched on the parser's class.
get_result(v, p) ==
    CASE v = "SerialGC"     -> SerialGetResult(p)
      [] v = "ParallelGC"   -> ParallelGetResult(p)
      [] v = "G1GC"         -> G1GetResult(p)
      [] v = "ZGC"          -> ZgcGetResult(p)
      [] v = "ShenandoahGC" -> ShenGetResult(p)
      [] v = "EpsilonGC"    -> EpsilonGetResult(p)

\* parser.reset(): only the pauseless parsers override BaseGCParser.reset.
reset(v, p) ==
    CASE v = "ZGC"          -> ZgcReset(p)
      [] v = "ShenandoahGC" -> ShenReset(p)
      [] OTHER              -> BaseReset(p)

\* ------------------------------------------------ the logs fed to a parser
\* GC event lines with a heap transition (Serial, Parallel and G1 logs).
EventLines ==
    {PauseHeapLine(0, "Young (Normal) (G1 Evacuation Pause)", 24, 0, 256, 20),
     PauseHeapLine(1, "Full (System.gc())", 69, 1, 247, 150),
     PauseHeapLine(2, "Remark", 2, 2, 256, 150)}

\* A phase sub-line: a GC id and a duration, no heap transition.
PhaseLines == {PhaseLine(1, "Phase 1: Mark live objects", 150)}

\* ZGC sub-phase pauses of two cycles.
ZgcPauseLines ==
    {PauseLine(0, "Mark Start", 20), PauseLine(0, "Mark End", 150),
     PauseLine(1, "Mark Start", 150)}

\* Shenandoah sub-phase pauses of two cycles.
ShenPauseLines ==
    {PauseLine(0, "Init Mark (unload classes)", 20),
     PauseLine(0, "Final Mark (unload classes)", 150),
     PauseLine(1, "Init Mark", 150)}

\* The lines a log of each collector family is drawn from: the family's
\* own lines, and for Epsilon pauses below, at and above its noise floor.
\* A phase sub-line is the line no pattern of the Parallel and G1 parsers
\* matches.
LinesFor(v) ==
    CASE v = "SerialGC" ->
            {HeapMaxCapacityLine(512, "M"), OtherLine}
            \cup EventLines \cup PhaseLines
      [] v = "ParallelGC" ->
            {HeapMaxCapacityLine(4, "G"), ExitTotalLine(262144, 5714)}
            \cup EventLines \cup PhaseLines
      [] v = "G1GC" ->
            {HeapAddressLine(4096), ExitTotalLine(262144, 5714)}
            \cup EventLines \cup PhaseLines
      [] v = "ZGC" ->
            {MaxCapacityLine(4096), ZHeapLine(782, 1596, 4096), OtherLine}
            \cup ZgcPauseLines
      [] v = "ShenandoahGC" ->
            {MaxCapacityLine(4096), ShenHeapLine(4096, 4096, 256, 28), OtherLine}
            \cup ShenPauseLines
      [] v = "EpsilonGC" ->
            {ResizeableLine(256, 4096), HeapAddressLine(2048),
             EpsHeapLine(4096, 256, 1809), HeapMaxCapacityLine(4, "G"),
             PauseLine(0, "Mark Start", 20), PauseLine(0, "Mark End", 150),
             PauseLine(1, "Mark Start", NoiseFloorUs), OtherLine}

\* ------------------------------------------------------------------ state
VARIABLES
    variant,      \* the class of the parser instance
    parser,       \* the parser instance's fields
    fresh,        \* a parser constructed at the last reset() (at the start,
                  \* the instance itself) and fed the same lines since
    log,          \* the lines fed since construction or the last reset()
    result,       \* <<r>>: get_result() returned r and no line was fed
                  \* since; <<>> otherwise
    prevLog,      \* the log fed before the last reset(), while the lines
                  \* fed since repeat it
    prevResult,   \* the record get_result() returned for prevLog
    replaying,    \* the lines fed since the last reset() repeat prevLog
    resets,       \* number of reset() calls so far
    last_call,    \* <<c>>: the last operation was parse_log_line, c.ret is
                  \* what it returned and c.before the parser it was called
                  \* on; <<>> otherwise
    unread        \* a parser that took the same parse_log_line and reset()
                  \* calls as the instance, and no get_result() call

parserVars ==
    <<variant, parser, fresh, log, result, prevLog, prevResult, replaying, resets,
      last_call, unread>>

\* ----------------------------------------------------- parser operations
ParserInit ==
    /\ variant \in Variants
    /\ parser = NewParser
    /\ fresh = NewParser
    /\ log = <<>>
    /\ result = <<>>
    /\ prevLog = <<>>
    /\ prevResult = <<>>
    /\ replaying = FALSE
    /\ resets = 0
    /\ last_call = <<>>
    /\ unread = NewParser

\* parser.parse_log_line(l)
ParseLogLine(l) ==
    /\ Len(log) < MaxLen
    /\ LET call == parse_log_line(variant, parser, l)
       IN  /\ parser' = call.parser
           /\ last_call' = <<[ret |-> call.ret, before |-> parser]>>
    /\ fresh' = parse_log_line(variant, fresh, l).parser
    /\ log' = Append(log, l)
    /\ result' = <<>>
    /\ replaying' = (replaying /\ Len(log) < Len(prevLog) /\ prevLog[Len(log) + 1] = l)
    /\ prevLog' = IF replaying' THEN prevLog ELSE <<>>
    /\ prevResult' = IF replaying' THEN prevResult ELSE <<>>
    /\ unread' = parse_log_line(variant, unread, l).parser
    /\ UNCHANGED <<variant, resets>>

\* parser.get_result()
GetResult ==
    /\ parser' = get_result(variant, parser).parser
    /\ result' = <<get_result(variant, parser).rec>>
    /\ last_call' = <<>>
    /\ UNCHANGED <<variant, fresh, log, prevLog, prevResult, replaying, resets, unread>>

\* parser.reset()
Reset ==
    /\ resets < MaxResets
    /\ parser' = reset(variant, parser)
    /\ fresh' = NewParser
    /\ log' = <<>>
    /\ result' = <<>>
    /\ replaying' = (result # <<>>)
    /\ prevLog' = IF result # <<>> THEN log ELSE <<>>
    /\ prevResult' = result
    /\ resets' = resets + 1
    /\ last_call' = <<>>
    /\ unread' = reset(variant, unread)
    /\ UNCHANGED variant

\* ---------------------------------------------------------- oracle engine
\* The oracles of Test_oracles/__init__.py the model registers.
OracleNames == {"oracle_test_failure", "oracle_stw_anomaly", "oracle_gc_overhead_anomaly"}

\* The "type" of the anomaly record each oracle returns.
AnomalyTypeOf(o) ==
    CASE o = "oracle_test_failure"        -> "test_failure"
      [] o = "oracle_stw_anomaly"         -> "stw_anomaly"
      [] o = "oracle_gc_overhead_anomaly" -> "gc_overhead_anomaly"

\* TEST_ORACLES: the registry as committed (oracle_stw_anomaly alone) and
\* with the commented-out entries around it enabled, in the list's order.
Registries ==
    {<<"oracle_stw_anomaly">>,
     <<"oracle_test_failure", "oracle_stw_anomaly">>,
     <<"oracle_stw_anomaly", "oracle_gc_overhead_anomaly">>,
     <<"oracle_test_failure", "oracle_stw_anomaly", "oracle_gc_overhead_anomaly">>}

\* The *.json paths of the scanned directory, in the order rglob yields them.
JsonPaths == <<"out/A.json", "out/B.json", "out/C.json", "out/sub/D.json">>

\* What an oracle does on a file's data: it returns None, returns an
\* anomaly record, or raises.
Outcomes == {"none", "anomaly", "raise"}

\* A result file: its path, whether open + json.load succeed, and what each
\* oracle (a pure function of the data and the path) does on its data; a
\* file that does not load has no data for an oracle to return from.
ResultFiles(path) ==
    [file_path : {path}, loadable : {TRUE}, outcome : [OracleNames -> Outcomes]]
    \cup [file_path : {path}, loadable : {FALSE}, outcome : [OracleNames -> {"raise"}]]

\* The record an oracle returns when it reports.
OracleAnomaly(o, f) ==
    [type |-> AnomalyTypeOf(o), file_path |-> f.file_path]

\* ResAnalyzer.analyze_json_file, the inner except clause.
OracleExecutionError(o, f) ==
    [type |-> "oracle_execution_error", file_path |-> f.file_path, oracle_name |-> o]

\* ResAnalyzer.analyze_json_file, the outer except clause.
ParseError(f) ==
    [type |-> "parse_error", file_path |-> f.file_path]

\* An oracle call, as the engine makes it: oracle(log_data, str(path)).
OracleCall(o, f) == [oracle |-> o, file_path |-> f.file_path]

RECURSIVE RunOracles(_, _, _, _, _)
\* "for oracle in TEST_ORACLES: try ... except Exception ...", from the
\* i-th oracle on; anoms is file_anomalies, calls the calls made so far.
RunOracles(reg, f, i, anoms, calls) ==
    IF i > Len(reg) THEN [anoms |-> anoms, calls |-> calls]
    ELSE LET o == reg[i]
             r == f.outcome[o]
             next == IF r = "anomaly" THEN Append(anoms, OracleAnomaly(o, f))
                     ELSE IF r = "raise" THEN Append(anoms, OracleExecutionError(o, f))
                     ELSE anoms
         IN  RunOracles(reg, f, i + 1, next, Append(calls, OracleCall(o, f)))

\* Mutant of analyze_json_file: no try around the oracle call, so the first
\* oracle that raises ends the loop in the outer except clause.
RECURSIVE RunOraclesUnguarded(_, _, _, _, _)
RunOraclesUnguarded(reg, f, i, anoms, calls) ==
    IF i > Len(reg) THEN [anoms |-> anoms, calls |-> calls]
    ELSE LET o == reg[i]
             r == f.outcome[o]
         IN  IF r = "raise"
             THEN [anoms |-> Append(anoms, ParseError(f)),
                   calls |-> Append(calls, OracleCall(o, f))]
             ELSE RunOraclesUnguarded(reg, f, i + 1,
                      IF r = "anomaly" THEN Append(anoms, OracleAnomaly(o, f)) ELSE anoms,
                      Append(calls, OracleCall(o, f)))

analyze_json_file_Unguarded(reg, f) ==
    IF ~f.loadable
    THEN [anoms |-> <<ParseError(f)>>, calls |-> <<>>]
    ELSE RunOraclesUnguarded(reg, f, 1, <<>>, <<>>)

\* Mutant of analyze_json_file: the load failure is recorded and the oracle
\* loop still runs, every oracle raising on the missing data.
analyze_json_file_LoadNotFatal(reg, f) ==
    IF ~f.loadable
    THEN [anoms |-> <<ParseError(f)>> \o
                    [i \in 1..Len(reg) |-> OracleExecutionError(reg[i], f)],
          calls |-> [i \in 1..Len(reg) |-> OracleCall(reg[i], f)]]
    ELSE RunOracles(reg, f, 1, <<>>, <<>>)

\* ResAnalyzer.analyze_json_file: the anomalies of one file, and the oracle
\* calls made for it.
analyze_json_file(reg, f) ==
    IF ~f.loadable
    THEN [anoms |-> <<ParseError(f)>>, calls |-> <<>>]
    ELSE RunOracles(reg, f, 1, <<>>, <<>>)

RECURSIVE scan_and_analyze_directory(_, _)
\* ResAnalyzer.scan_and_analyze_directory over the listed files.
scan_and_analyze_directory(reg, files) ==
    IF files = <<>> THEN <<>>
    ELSE analyze_json_file(reg, Head(files)).anoms
         \o scan_and_analyze_directory(reg, Tail(files))

VARIABLES
    registry,       \* TEST_ORACLES
    scanned,        \* the result files the scan has analyzed, in order
    all_anomalies,  \* scan_and_analyze_directory's all_anomalies
    invoked,        \* the oracle calls made so far, in order
    report          \* <<>>, or one entry: main's report on all_anomalies

engineVars == <<registry, scanned, all_anomalies, invoked, report>>

EngineInit ==
    /\ registry \in Registries
    /\ scanned = <<>>
    /\ all_anomalies = <<>>
    /\ invoked = <<>>
    /\ report = <<>>

\* One iteration of scan_and_analyze_directory's loop: the next file of the
\* directory is analyzed and its anomalies are appended.
ScanFile(f) ==
    /\ report = <<>>
    /\ Len(scanned) < MaxFiles
    /\ f.file_path = JsonPaths[Len(scanned) + 1]
    /\ all_anomalies' = all_anomalies \o analyze_json_file(registry, f).anoms
    /\ invoked' = invoked \o analyze_json_file(registry, f).calls
    /\ scanned' = Append(scanned, f)
    /\ UNCHANGED <<registry, report>>

\* len(set(anomaly["file_path"] for anomaly in anomalies))
\* Mutant: every anomaly counts as a file of its own.
AffectedFiles_PerAnomaly(anomalies) == Len(anomalies)

AffectedFiles(anomalies) ==
    Cardinality({anomalies[i].file_path : i \in DOMAIN anomalies})

\* ResAnalyzer.generate_anomaly_report(anomalies), with TEST_ORACLES = reg.
\* by_type is a dict: its keys are the types met, each with the list of its
\* anomalies in the order of the input.
generate_anomaly_report(reg, anomalies) ==
    LET types == {anomalies[i].type : i \in DOMAIN anomalies}
        by_type == [t \in types |-> SelectSeq(anomalies, LAMBDA a : a.type = t)]
        stats == [total_anomalies |-> Len(anomalies),
                  anomalies_by_type |-> [t \in types |-> Len(by_type[t])],
                  affected_files |-> AffectedFiles(anomalies),
                  active_oracles |-> Len(reg)]
    IN  [summary |-> stats, details |-> by_type]

\* main: the scan of the directory is over (the directory held the files
\* scanned so far) and the report on its anomalies is generated.
GenerateReport ==
    /\ report = <<>>
    /\ report' = <<generate_anomaly_report(registry, all_anomalies)>>
    /\ UNCHANGED <<registry, scanned, all_anomalies, invoked>>

\* ------------------------------------------------------------ log analyzer
\* str.lower() of one character.
LowerChar(ch) ==
    CASE ch = "A" -> "a" [] ch = "B" -> "b" [] ch = "C" -> "c" [] ch = "D" -> "d"
      [] ch = "E" -> "e" [] ch = "F" -> "f" [] ch = "G" -> "g" [] ch = "H" -> "h"
      [] ch = "I" -> "i" [] ch = "J" -> "j" [] ch = "K" -> "k" [] ch = "L" -> "l"
      [] ch = "M" -> "m" [] ch = "N" -> "n" [] ch = "O" -> "o" [] ch = "P" -> "p"
      [] ch = "Q" -> "q" [] ch = "R" -> "r" [] ch = "S" -> "s" [] ch = "T" -> "t"
      [] ch = "U" -> "u" [] ch = "V" -> "v" [] ch = "W" -> "w" [] ch = "X" -> "x"
      [] ch = "Y" -> "y" [] ch = "Z" -> "z" [] OTHER -> ch

RECURSIVE Lower(_)
\* str.lower()
Lower(s) ==
    IF Len(s) = 0 THEN ""
    ELSE LowerChar(SubSeq(s, 1, 1)) \o Lower(SubSeq(s, 2, Len(s)))

RECURSIVE PathName(_)
\* Path(p).name: the text after the last "/".
PathName(s) ==
    IF ~Contains(s, "/") THEN s
    ELSE PathName(SubSeq(s, 2, Len(s)))

\* A metrics record as parse_gc_log builds it: no max_stw_time_ms key.
FixedMetrics(count, stw, heap, label) ==
    [kind |-> "metrics",
     total_gc_count |-> count, gc_stw_time_ms |-> stw, max_heap_mb |-> heap,
     gc_type_breakdown |-> [k \in {label} |-> [count |-> count, stw_time_ms |-> stw]]]

\* GCLogAnalyzer.parse_gc_log: what the call hands back for a log path.
\* It returns one of seven fixed records chosen by the lower-cased file
\* name (times in microseconds) and raises nothing.
parse_gc_log(gc_log_file) ==
    LET gc_log_filename == Lower(PathName(gc_log_file))
    IN  IF Contains(gc_log_filename, "serialgc") THEN FixedMetrics(3, 45200, 256, "SerialGC")
        ELSE IF Contains(gc_log_filename, "parallelgc") THEN FixedMetrics(2, 28700, 512, "ParallelGC")
        ELSE IF Contains(gc_log_filename, "g1gc") THEN FixedMetrics(5, 67800, 1024, "G1GC")
        ELSE IF Contains(gc_log_filename, "zgc") THEN FixedMetrics(1, 12300, 2048, "ZGC")
        ELSE IF Contains(gc_log_filename, "shenandoahgc") THEN FixedMetrics(4, 38900, 1536, "ShenandoahGC")
        ELSE IF Contains(gc_log_filename, "epsilongc") THEN FixedMetrics(0, 0, 128, "EpsilonGC")
        ELSE FixedMetrics(1, 15000, 256, "UnknownGC")

\* The collector-family tokens the analyzer looks for in a file name.
FamilyTokens == {"serialgc", "parallelgc", "g1gc", "zgc", "shenandoahgc", "epsilongc"}

\* The log paths handed to the analyzer: the names of example_usage.py's
\* demo_files, and logs whose name carries no family token (one of them
\* inside a directory named after a family).
LogPaths ==
    {"gclogs/jdk21-SerialGC.log", "gclogs/jdk17-ParallelGC.log",
     "gclogs/jdk25-G1GC.log",
     "gclogs/jdk21-ZGC.log", "gclogs/jdk17-EpsilonGC.log",
     "gclogs/jdk21-ShenandoahGC.log", "gclogs/jdk25-ShenandoahGC-Gen.log",
     "gclogs/gc.log", "gclogs/jdk17-CMS.log", "gclogs/zgc/jdk21-app.log"}

VARIABLES
    results         \* example_usage.analyze_gc_logs: results[filename]

analyzerVars == <<results>>

AnalyzerInit == results = <<>>

\* result = analyzer.parse_gc_log(str(gc_log_file)); results[filename] = result
AnalyzeLog(f) ==
    /\ f \notin DOMAIN results
    /\ Cardinality(DOMAIN results) < MaxLogs
    /\ results' = Put(results, f, parse_gc_log(f))

\* ---------------------------------------------------------------- executor
\* JDKDifferentialTester.JDK_CONFIGS: the JDK versions in the dict's order,
\* each with its lists of JVM parameters.
JDK_CONFIGS ==
    << [jdk |-> "11", params |->
          << <<"-XX:+UseSerialGC">>, <<"-XX:+UseParallelGC">>,
             <<"-XX:+UseParallelOldGC">>, <<"-XX:+UseG1GC">>,
             <<"-XX:+UnlockExperimentalVMOptions", "-XX:+UseShenandoahGC">>,
             <<"-XX:+UnlockExperimentalVMOptions", "-XX:+UseEpsilonGC">> >>],
       [jdk |-> "17", params |->
          << <<"-XX:+UseSerialGC">>, <<"-XX:+UseParallelGC">>, <<"-XX:+UseG1GC">>,
             <<"-XX:+UseZGC">>, <<"-XX:+UseShenandoahGC">>,
             <<"-XX:+UnlockExperimentalVMOptions", "-XX:+UseEpsilonGC">> >>],
       [jdk |-> "21", params |->
          << <<"-XX:+UseSerialGC">>, <<"-XX:+UseParallelGC">>, <<"-XX:+UseG1GC">>,
             <<"-XX:+UseZGC">>, <<"-XX:+UseShenandoahGC">>,
             <<"-XX:+UnlockExperimentalVMOptions", "-XX:+UseEpsilonGC">> >>],
       [jdk |-> "25", params |->
          << <<"-XX:+UseSerialGC">>, <<"-XX:+UseParallelGC">>, <<"-XX:+UseG1GC">>,
             <<"-XX:+UseZGC">>,
             <<"-XX:+UseShenandoahGC", "-XX:+UnlockExperimentalVMOptions",
               "-XX:ShenandoahGCMode=generational">>,
             <<"-XX:+UnlockExperimentalVMOptions", "-XX:+UseEpsilonGC">> >>],
       [jdk |-> "26", params |->
          << <<"-XX:+UseSerialGC">>, <<"-XX:+UseParallelGC">>, <<"-XX:+UseG1GC">>,
             <<"-XX:+UseZGC">>,
             <<"-XX:+UnlockExperimentalVMOptions", "-XX:+UseEpsilonGC">> >>] >>

\* Python's "x in list".
InList(x, list) == \E i \in DOMAIN list : list[i] = x

\* test_class_with_jdk_variants: the short GC name of a parameter list.
GcName(jvm_params) ==
    IF InList("-XX:+UseSerialGC", jvm_params) THEN "SerialGC"
    ELSE IF InList("-XX:+UseParallelGC", jvm_params) THEN "ParallelGC"
    ELSE IF InList("-XX:+UseParallelOldGC", jvm_params) THEN "ParallelOldGC"
    ELSE IF InList("-XX:+UseG1GC", jvm_params) THEN "G1GC"
    ELSE IF InList("-XX:+UseZGC", jvm_params) THEN "ZGC"
    ELSE IF InList("-XX:+UseShenandoahGC", jvm_params) THEN
        IF InList("-XX:ShenandoahGCMode=generational", jvm_params)
        THEN "ShenandoahGC-Gen" ELSE "ShenandoahGC"
    ELSE IF InList("-XX:+UseEpsilonGC", jvm_params) THEN "EpsilonGC"
    ELSE "UnknownGC"

\* gc_logs_dir / f"jdk{jdk_version}-{gc_name}.log" for the class file T.
GcLogFile(jdk_version, jvm_params) ==
    "out/T.gclogs/jdk" \o jdk_version \o "-" \o GcName(jvm_params) \o ".log"

\* The log texts a JVM run with the given parameters leaves: an empty
\* file, or two lines of its collector.
GcLogTexts(jvm_params) ==
    LET n == GcName(jvm_params)
    IN  IF n \in {"ZGC"} THEN
            {<<>>,
             <<PauseLine(0, "Mark Start", 20), PauseLine(1, "Mark Start", 150)>>}
        ELSE IF n \in {"ShenandoahGC", "ShenandoahGC-Gen"} THEN
            {<<>>,
             <<PauseLine(0, "Init Mark", 150), PauseLine(1, "Final Roots", 20)>>}
        ELSE IF n = "EpsilonGC" THEN
            {<<>>,
             <<ResizeableLine(256, 4096), EpsHeapLine(4096, 256, 1809)>>}
        ELSE
            {<<>>,
             <<PauseHeapLine(0, "Young (Normal) (G1 Evacuation Pause)", 24, 0, 256, 20),
               PauseHeapLine(1, "Full (System.gc())", 69, 1, 247, 150)>>}

\* What ClassFileRunner.test_class_file does for one run: it raises, or it
\* returns a result (success with exit code 0, or failure); the JVM leaves
\* a GC log (written, with its text) or none.
RunOutcomes(jvm_params) ==
    [raises : {TRUE}, success : {FALSE}, written : {FALSE}, text : {<<>>}]
    \cup [raises : {FALSE}, success : BOOLEAN, written : {FALSE}, text : {<<>>}]
    \cup [raises : {FALSE}, success : BOOLEAN, written : {TRUE},
          text : GcLogTexts(jvm_params)]

\* The dict test_class_file returns, with the three keys the tester adds.
RunResult(jdk_version, jvm_params, o) ==
    [success |-> o.success, exit_code |-> IF o.success THEN 0 ELSE 1,
     duration_ms |-> 250, output |-> IF o.success THEN "" ELSE "Exception in thread main",
     jdk_version |-> jdk_version, GC_parameters |-> jvm_params]

\* The error_result of the tester's except clause.
ErrorResult(jdk_version, jvm_params) ==
    [success |-> FALSE, exit_code |-> 0 - 1, duration_ms |-> 0,
     output |-> "Test execution error", jdk_version |-> jdk_version,
     GC_parameters |-> jvm_params]

\* result["gc_analysis"] = gc_analysis
WithGcAnalysis(res, gc_analysis) ==
    [k \in (DOMAIN res) \cup {"gc_analysis"} |->
        IF k = "gc_analysis" THEN gc_analysis ELSE res[k]]

\* The body of test_class_with_jdk_variants' inner loop for one parameter
\* list: the class_results after it. parse_gc_log raises nothing, so the
\* zeroed record of the except clause around it is never built.
TestOneVariant(acc, jdk_version, jvm_params, o) ==
    IF o.raises THEN
        IF ~InList("-XX:+UseEpsilonGC", jvm_params)
        THEN Append(acc, ErrorResult(jdk_version, jvm_params))
        ELSE acc
    ELSE
        LET res == RunResult(jdk_version, jvm_params, o)
            analysed == IF res.success
                        THEN WithGcAnalysis(res, parse_gc_log(GcLogFile(jdk_version, jvm_params)))
                        ELSE res
        IN  IF InList("-XX:+UseEpsilonGC", jvm_params) /\ ~res.success
            THEN acc
            ELSE Append(acc, analysed)

VARIABLES
    jdk_idx,        \* position of the outer loop in JDK_CONFIGS
    param_idx,      \* position of the inner loop in that JDK's parameter lists
    class_results,  \* test_class_with_jdk_variants' class_results
    gc_logs         \* the GC log files on disk: path -> lines

executorVars == <<jdk_idx, param_idx, class_results, gc_logs>>

ExecutorInit ==
    /\ jdk_idx = 1
    /\ param_idx = 1
    /\ class_results = <<>>
    /\ gc_logs = <<>>

\* switch_jdk(jdk_version) fails: the JDK's parameter lists are skipped.
SkipJdk ==
    /\ jdk_idx <= Len(JDK_CONFIGS)
    /\ param_idx = 1
    /\ jdk_idx' = jdk_idx + 1
    /\ UNCHANGED <<param_idx, class_results, gc_logs>>

\* One pass of the inner loop: the class is run under the current JDK and
\* parameter list, its GC log analysed and its result recorded.
TestVariant(o) ==
    /\ jdk_idx <= Len(JDK_CONFIGS)
    /\ Len(class_results) < MaxVariants
    /\ LET cfg == JDK_CONFIGS[jdk_idx]
           jvm_params == cfg.params[param_idx]
       IN  /\ o \in RunOutcomes(jvm_params)
           /\ gc_logs' = IF o.written
                         THEN Put(gc_logs, GcLogFile(cfg.jdk, jvm_params), o.text)
                         ELSE gc_logs
           /\ class_results' = TestOneVariant(class_results, cfg.jdk, jvm_params, o)
           /\ IF param_idx < Len(cfg.params)
              THEN param_idx' = param_idx + 1 /\ UNCHANGED jdk_idx
              ELSE param_idx' = 1 /\ jdk_idx' = jdk_idx + 1

\* ----------------------------------------------------------------- oracles
\* dict.get(k, default)
Get(d, k, default) == IF k \in DOMAIN d THEN d[k] ELSE default

\* Python's None, and an oracle's "return None".
NoneValue == [type |-> "None"]

\* str.upper() of one character.
UpperChar(ch) ==
    CASE ch = "a" -> "A" [] ch = "b" -> "B" [] ch = "c" -> "C" [] ch = "d" -> "D"
      [] ch = "e" -> "E" [] ch = "f" -> "F" [] ch = "g" -> "G" [] ch = "h" -> "H"
      [] ch = "i" -> "I" [] ch = "j" -> "J" [] ch = "k" -> "K" [] ch = "l" -> "L"
      [] ch = "m" -> "M" [] ch = "n" -> "N" [] ch = "o" -> "O" [] ch = "p" -> "P"
      [] ch = "q" -> "Q" [] ch = "r" -> "R" [] ch = "s" -> "S" [] ch = "t" -> "T"
      [] ch = "u" -> "U" [] ch = "v" -> "V" [] ch = "w" -> "W" [] ch = "x" -> "X"
      [] ch = "y" -> "Y" [] ch = "z" -> "Z" [] OTHER -> ch

RECURSIVE Upper(_)
\* str.upper()
Upper(s) ==
    IF Len(s) = 0 THEN ""
    ELSE UpperChar(SubSeq(s, 1, 1)) \o Upper(SubSeq(s, 2, Len(s)))

RECURSIVE JoinSpace(_)
\* " ".join(list)
JoinSpace(list) ==
    IF list = <<>> THEN ""
    ELSE IF Len(list) = 1 THEN list[1]
    ELSE list[1] \o " " \o JoinSpace(Tail(list))

\* classify_gc_type (the same text in stw_anomaly.py and
\* gc_overhead_anomaly.py).
classify_gc_type(res) ==
    LET params_str == Upper(JoinSpace(Get(res, "GC_parameters", <<>>)))
    IN  IF Contains(params_str, "+USEZGC") THEN "ZGC"
        ELSE IF Contains(params_str, "+USESHENANDOAHGC") THEN "ShenandoahGC"
        ELSE IF Contains(params_str, "+USEG1GC") THEN "G1GC"
        ELSE IF Contains(params_str, "+USEPARALLELGC")
                \/ Contains(params_str, "+USEPARALLELOLDGC") THEN "ParallelGC"
        ELSE IF Contains(params_str, "+USESERIALGC") THEN "SerialGC"
        ELSE "Unknown"

RECURSIVE Flatten(_)
\* The concatenation of a list of lists (list.extend in a loop).
Flatten(lists) ==
    IF lists = <<>> THEN <<>> ELSE Head(lists) \o Flatten(Tail(lists))

RECURSIVE KeysInOrder(_)
\* The keys of a dict filled in a loop over a list of keys: each key once,
\* in the order of its first occurrence.
KeysInOrder(keys) ==
    IF keys = <<>> THEN <<>>
    ELSE LET front == KeysInOrder(SubSeq(keys, 1, Len(keys) - 1))
             k == keys[Len(keys)]
         IN  IF InList(k, front) THEN front ELSE Append(front, k)

\* The sort key of a JDK version: float(v) if v.replace('.', '').isdigit()
\* else 0.
JdkSortKey(v) ==
    CASE v = "11" -> 11 [] v = "17" -> 17 [] v = "21" -> 21
      [] v = "25" -> 25 [] v = "26" -> 26 [] OTHER -> 0

RECURSIVE SortedByJdk(_)
\* sorted(data, key=...): stable, ascending in the JDK sort key.
SortedByJdk(data) ==
    IF data = <<>> THEN <<>>
    ELSE LET front == SortedByJdk(SubSeq(data, 1, Len(data) - 1))
             x == data[Len(data)]
             n == Cardinality({i \in DOMAIN front :
                       JdkSortKey(front[i].jdk_version) <= JdkSortKey(x.jdk_version)})
         IN  SubSeq(front, 1, n) \o <<x>> \o SubSeq(front, n + 1, Len(front))

\* STW_THRESHOLDS.get(gc_type, STW_THRESHOLDS["Unknown"]), in microseconds.
\* Mutant: G1GC gets the ParallelGC ceiling's order of magnitude.
StwThreshold_G1Lenient(gc_type) ==
    CASE gc_type = "ZGC" -> 2000 [] gc_type = "ShenandoahGC" -> 100000
      [] gc_type = "G1GC" -> 1000000 [] gc_type = "ParallelGC" -> 300000
      [] gc_type = "SerialGC" -> 500000 [] OTHER -> 300000

StwThreshold(gc_type) ==
    CASE gc_type = "ZGC" -> 2000 [] gc_type = "ShenandoahGC" -> 100000
      [] gc_type = "G1GC" -> 100000 [] gc_type = "ParallelGC" -> 300000
      [] gc_type = "SerialGC" -> 500000 [] OTHER -> 300000

\* oracle_stw_anomaly: does a result enter gc_data?  d.get(k) is None is
\* the absence of the key k.
StwEvaluable(res) ==
    LET gc_analysis == Get(res, "gc_analysis", EmptyDict)
    IN  /\ DOMAIN gc_analysis # {}
        /\ "total_gc_count" \in DOMAIN gc_analysis
        /\ ~(gc_analysis.total_gc_count < 10)
        /\ "max_stw_time_ms" \in DOMAIN gc_analysis

\* oracle_stw_anomaly: one entry of gc_data.
StwData(res) ==
    [jdk_version |-> Get(res, "jdk_version", "unknown"),
     gc_type |-> classify_gc_type(res),
     max_stw_time_ms |-> res.gc_analysis.max_stw_time_ms,
     total_gc_count |-> res.gc_analysis.total_gc_count,
     gc_parameters |-> Get(res, "GC_parameters", <<>>)]

\* oracle_stw_anomaly: gc_data.
StwGcData(test_results) ==
    LET kept == SelectSeq(test_results, StwEvaluable)
    IN  [i \in DOMAIN kept |-> StwData(kept[i])]

\* 1. the absolute thresholds.
StwThresholdAnomalies(gc_data) ==
    LET over == SelectSeq(gc_data,
                    LAMBDA d : d.max_stw_time_ms > StwThreshold(d.gc_type))
    IN  [i \in DOMAIN over |->
            [jdk_version |-> over[i].jdk_version,
             gc_type |-> over[i].gc_type,
             gc_parameters |-> over[i].gc_parameters,
             max_stw_time_ms |-> over[i].max_stw_time_ms,
             threshold_ms |-> StwThreshold(over[i].gc_type),
             excess_ms |-> over[i].max_stw_time_ms - StwThreshold(over[i].gc_type),
             total_gc_count |-> over[i].total_gc_count]]

\* The entries of a dict of lists grouped in a loop: the list of the data
\* whose field k has the value key, in their order.
GroupOf(gc_data, k, key) == SelectSeq(gc_data, LAMBDA d : d[k] = key)

\* gc_stw_map[gc_type] after the loop over one JDK's data: the value of the
\* last entry of that type.
GcStwMap(jdk_gc_data, gc_type) ==
    LET same == SelectSeq(jdk_gc_data, LAMBDA d : d.gc_type = gc_type)
    IN  same[Len(same)].max_stw_time_ms

HasGcType(jdk_gc_data, gc_type) ==
    \E i \in DOMAIN jdk_gc_data : jdk_gc_data[i].gc_type = gc_type

\* 2. one JDK's G1GC against its SerialGC (durations in microseconds:
\* 1 ms is 1000).
StwG1VsSerial(jdk_version, jdk_gc_data) ==
    IF /\ HasGcType(jdk_gc_data, "G1GC") /\ HasGcType(jdk_gc_data, "SerialGC")
       /\ GcStwMap(jdk_gc_data, "SerialGC") > 1000
       /\ GcStwMap(jdk_gc_data, "G1GC") > GcStwMap(jdk_gc_data, "SerialGC") * 20
    THEN << [anomaly_type |-> "jdk_internal_gc_comparison",
             jdk_version |-> jdk_version,
             g1gc_stw_ms |-> GcStwMap(jdk_gc_data, "G1GC"),
             serialgc_stw_ms |-> GcStwMap(jdk_gc_data, "SerialGC"),
             excess_ms |-> GcStwMap(jdk_gc_data, "G1GC")
                             - GcStwMap(jdk_gc_data, "SerialGC")] >>
    ELSE <<>>

\* 2. one low-latency collector against one other collector of the JDK
\* (0.1 ms is 100).
StwLowLatencyPair(jdk_version, low_latency_gc, other_gc) ==
    LET factor == IF low_latency_gc.gc_type = "ShenandoahGC" THEN 20 ELSE 1
    IN  IF /\ other_gc.max_stw_time_ms > 100
           /\ low_latency_gc.max_stw_time_ms > other_gc.max_stw_time_ms * factor
        THEN << [anomaly_type |-> "jdk_internal_gc_comparison",
                 jdk_version |-> jdk_version,
                 low_latency_gc_type |-> low_latency_gc.gc_type,
                 low_latency_gc_stw_ms |-> low_latency_gc.max_stw_time_ms,
                 other_gc_type |-> other_gc.gc_type,
                 other_gc_stw_ms |-> other_gc.max_stw_time_ms,
                 excess_ms |-> low_latency_gc.max_stw_time_ms
                                 - other_gc.max_stw_time_ms] >>
        ELSE <<>>

\* 2. the comparisons inside one JDK version.
StwJdkGroupAnomalies(jdk_version, jdk_gc_data) ==
    LET IsLow(d) == d.gc_type \in {"ZGC", "ShenandoahGC"}
        low_latency_gcs == SelectSeq(jdk_gc_data, IsLow)
        other_gcs == SelectSeq(jdk_gc_data, LAMBDA d : ~IsLow(d))
    IN  StwG1VsSerial(jdk_version, jdk_gc_data)
        \o Flatten([i \in DOMAIN low_latency_gcs |->
               Flatten([j \in DOMAIN other_gcs |->
                   StwLowLatencyPair(jdk_version, low_latency_gcs[i], other_gcs[j])])])

StwJdkComparisonAnomalies(gc_data) ==
    LET jdks == KeysInOrder([i \in DOMAIN gc_data |-> gc_data[i].jdk_version])
    IN  Flatten([g \in DOMAIN jdks |->
            StwJdkGroupAnomalies(jdks[g], GroupOf(gc_data, "jdk_version", jdks[g]))])

\* 3. the absolute floor of the increase for a collector, microseconds.
StwIncreaseFloor(gc_type) ==
    CASE gc_type = "ShenandoahGC" -> 5000 [] gc_type = "ZGC" -> 100
      [] OTHER -> 50000

\* 3. the floor of the increase relative to the previous version.
StwRatioFloor(gc_type) ==
    CASE gc_type = "ShenandoahGC" -> 20 [] gc_type = "ZGC" -> 5 [] OTHER -> 20

\* 3. is the step from prev_stw to curr_stw a regression?  0.001 ms is 1;
\* stw_increase / prev_stw > f with prev_stw > 0 is stw_increase > f * prev_stw.
\* Mutant: either floor is enough.
StwRegressed_EitherFloor(gc_type, prev_stw, curr_stw) ==
    /\ ~(prev_stw < 1)
    /\ \/ curr_stw - prev_stw > StwIncreaseFloor(gc_type)
       \/ curr_stw - prev_stw > StwRatioFloor(gc_type) * prev_stw

StwRegressed(gc_type, prev_stw, curr_stw) ==
    /\ ~(prev_stw < 1)
    /\ curr_stw - prev_stw > StwIncreaseFloor(gc_type)
    /\ curr_stw - prev_stw > StwRatioFloor(gc_type) * prev_stw

\* 3. one collector across JDK versions, adjacent pairs of the sorted data.
StwTypeGroupAnomalies(gc_type, gc_type_data) ==
    LET sorted_data == SortedByJdk(gc_type_data)
    IN  Flatten([i \in 1..(Len(sorted_data) - 1) |->
            LET prev_version == sorted_data[i]
                curr_version == sorted_data[i + 1]
            IN  IF StwRegressed(gc_type, prev_version.max_stw_time_ms,
                                curr_version.max_stw_time_ms)
                THEN << [anomaly_type |-> "cross_version_gc_regression",
                         gc_type |-> gc_type,
                         prev_jdk_version |-> prev_version.jdk_version,
                         curr_jdk_version |-> curr_version.jdk_version,
                         prev_stw_ms |-> prev_version.max_stw_time_ms,
                         curr_stw_ms |-> curr_version.max_stw_time_ms,
                         increase_ms |-> curr_version.max_stw_time_ms
                                           - prev_version.max_stw_time_ms] >>
                ELSE <<>>])

StwCrossVersionAnomalies(gc_data) ==
    LET types == KeysInOrder([i \in DOMAIN gc_data |-> gc_data[i].gc_type])
    IN  Flatten([g \in DOMAIN types |->
            StwTypeGroupAnomalies(types[g], GroupOf(gc_data, "gc_type", types[g]))])

\* len([a for a in anomalies if a.get("anomaly_type") == t])
CountOfType(anomalies, t) ==
    Cardinality({i \in DOMAIN anomalies :
        Get(anomalies[i], "anomaly_type", "") = t})

\* oracle_stw_anomaly(log_data, file_path); the message and description
\* strings and the derived increase_ratio are left out of the records.
oracle_stw_anomaly(log_data, file_path) ==
    IF "test_results" \notin DOMAIN log_data THEN NoneValue
    ELSE IF log_data.test_results = <<>> THEN NoneValue
    ELSE LET gc_data == StwGcData(log_data.test_results)
             anomalies == StwThresholdAnomalies(gc_data)
                          \o StwJdkComparisonAnomalies(gc_data)
                          \o StwCrossVersionAnomalies(gc_data)
         IN  IF gc_data = <<>> \/ anomalies = <<>> THEN NoneValue
             ELSE [type |-> "stw_anomaly",
                   file_path |-> file_path,
                   anomalies |-> anomalies,
                   summary |->
                     [total_anomalies |-> Len(anomalies),
                      threshold_violations |->
                          Cardinality({i \in DOMAIN anomalies :
                              "threshold_ms" \in DOMAIN anomalies[i]}),
                      jdk_internal_comparisons |->
                          CountOfType(anomalies, "jdk_internal_gc_comparison"),
                      cross_version_regressions |->
                          CountOfType(anomalies, "cross_version_gc_regression")]]

\* ------------------------------------------------- gc_overhead_anomaly.py
RECURSIVE Gcd(_, _)
Gcd(a, b) == IF b = 0 THEN a ELSE Gcd(b, a % b)

Abs(x) == IF x < 0 THEN -x ELSE x

\* A ratio as an exact fraction in lowest terms, den > 0 (the code's float).
Frac(n, d) ==
    LET g == Gcd(Abs(n), d)
    IN  [num |-> n \div g, den |-> d \div g]

FracLess(a, b) == a.num * b.den < b.num * a.den

FracMinus(a, b) == Frac(a.num * b.den - b.num * a.den, a.den * b.den)

FracTimes(a, k) == Frac(a.num * k, a.den)

RECURSIVE SortedRatios(_)
\* sorted(ratios)
SortedRatios(ratios) ==
    IF ratios = <<>> THEN <<>>
    ELSE LET front == SortedRatios(SubSeq(ratios, 1, Len(ratios) - 1))
             x == ratios[Len(ratios)]
             n == Cardinality({i \in DOMAIN front : ~FracLess(x, front[i])})
         IN  SubSeq(front, 1, n) \o <<x>> \o SubSeq(front, n + 1, Len(front))

\* statistics.median of a non-empty list: the middle value, or the mean of
\* the two middle values.
Median(ratios) ==
    LET s == SortedRatios(ratios)
        n == Len(s)
    IN  IF n % 2 = 1 THEN s[(n + 1) \div 2]
        ELSE LET a == s[n \div 2]
                 b == s[n \div 2 + 1]
             IN  Frac(a.num * b.den + b.num * a.den, 2 * a.den * b.den)

\* An exception leaving an oracle.
Raised(error) == [type |-> "raise", error |-> error]

\* oracle_gc_overhead_anomaly: does a result enter gc_data?
OverheadEvaluable(res) ==
    LET gc_analysis == Get(res, "gc_analysis", EmptyDict)
    IN  /\ DOMAIN gc_analysis # {}
        /\ "gc_stw_time_ms" \in DOMAIN gc_analysis
        /\ "total_gc_count" \in DOMAIN gc_analysis
        /\ "duration_ms" \in DOMAIN res
        /\ ~(gc_analysis.total_gc_count <= 10)

\* gc_stw_time / duration_ms if duration_ms > 0 else 0, with gc_stw_time in
\* microseconds and duration_ms in milliseconds.
GcOverheadRatio(gc_stw_time, duration_ms) ==
    IF duration_ms > 0 THEN Frac(gc_stw_time, 1000 * duration_ms) ELSE Frac(0, 1)

\* oracle_gc_overhead_anomaly: one entry of gc_data.
OverheadData(res) ==
    [jdk_version |-> Get(res, "jdk_version", "unknown"),
     gc_type |-> classify_gc_type(res),
     gc_stw_time_ms |-> res.gc_analysis.gc_stw_time_ms,
     duration_ms |-> res.duration_ms,
     total_gc_count |-> res.gc_analysis.total_gc_count,
     gc_overhead_ratio |->
         GcOverheadRatio(res.gc_analysis.gc_stw_time_ms, res.duration_ms)]

OverheadGcData(test_results) ==
    LET kept == SelectSeq(test_results, OverheadEvaluable)
    IN  [i \in DOMAIN kept |-> OverheadData(kept[i])]

\* The ratios above 100 percent.
OverheadDebugAnomalies(gc_data) ==
    LET over == SelectSeq(gc_data,
                    LAMBDA d : FracLess(Frac(1, 1), d.gc_overhead_ratio))
    IN  [i \in DOMAIN over |->
            [anomaly_type |-> "debug_gc_overhead_over_100_percent",
             jdk_version |-> over[i].jdk_version,
             gc_type |-> over[i].gc_type,
             gc_stw_time_ms |-> over[i].gc_stw_time_ms,
             duration_ms |-> over[i].duration_ms,
             total_gc_count |-> over[i].total_gc_count]]

\* 1. the multiplier of the median for a collector.
OverheadMultiplier(gc_type) ==
    CASE gc_type = "SerialGC" -> 20 [] gc_type = "ParallelGC" -> 10
      [] gc_type = "G1GC" -> 5 [] OTHER -> 3

\* 1. the data of one JDK version whose ratio exceeds the median times the
\* multiplier, each with the median; groups of one are not compared.
OverheadJdkGroupFlagged(jdk_gc_data) ==
    IF Len(jdk_gc_data) < 2 THEN <<>>
    ELSE LET median_ratio ==
                 Median([i \in DOMAIN jdk_gc_data |->
                            jdk_gc_data[i].gc_overhead_ratio])
             flagged == SelectSeq(jdk_gc_data, LAMBDA d :
                            FracLess(FracTimes(median_ratio,
                                               OverheadMultiplier(d.gc_type)),
                                     d.gc_overhead_ratio))
         IN  [i \in DOMAIN flagged |->
                 [data |-> flagged[i], median_ratio |-> median_ratio]]

OverheadJdkFlagged(gc_data) ==
    LET jdks == KeysInOrder([i \in DOMAIN gc_data |-> gc_data[i].jdk_version])
    IN  Flatten([g \in DOMAIN jdks |->
            OverheadJdkGroupFlagged(GroupOf(gc_data, "jdk_version", jdks[g]))])

\* 1. the record of a flagged collector; its ratio_multiplier is
\* ratio / median_ratio, kept as the pair of the two.
OverheadJdkComparisonAnomalies(flagged) ==
    [i \in DOMAIN flagged |->
        [anomaly_type |-> "jdk_internal_overhead_comparison",
         jdk_version |-> flagged[i].data.jdk_version,
         gc_type |-> flagged[i].data.gc_type,
         gc_overhead_ratio |-> flagged[i].data.gc_overhead_ratio,
         median_ratio |-> flagged[i].median_ratio,
         gc_stw_time_ms |-> flagged[i].data.gc_stw_time_ms,
         duration_ms |-> flagged[i].data.duration_ms,
         total_gc_count |-> flagged[i].data.total_gc_count]]

\* 2. is the step from prev_overhead to curr_overhead a regression?
\* 0.05 is 1/20; the relative increase is infinite when prev_overhead is 0.
OverheadRegressed(prev_overhead, curr_overhead) ==
    LET overhead_increase == FracMinus(curr_overhead, prev_overhead)
    IN  /\ FracLess(Frac(1, 20), overhead_increase)
        /\ \/ ~(prev_overhead.num > 0)
           \/ FracLess(FracTimes(prev_overhead, 5), overhead_increase)

\* 2. one collector across JDK versions, adjacent pairs of the sorted data.
OverheadTypeGroupAnomalies(gc_type, gc_type_data) ==
    LET sorted_data == SortedByJdk(gc_type_data)
    IN  Flatten([i \in 1..(Len(sorted_data) - 1) |->
            LET prev_version == sorted_data[i]
                curr_version == sorted_data[i + 1]
            IN  IF OverheadRegressed(prev_version.gc_overhead_ratio,
                                     curr_version.gc_overhead_ratio)
                THEN << [anomaly_type |-> "cross_version_overhead_regression",
                         gc_type |-> gc_type,
                         prev_jdk_version |-> prev_version.jdk_version,
                         curr_jdk_version |-> curr_version.jdk_version,
                         prev_overhead |-> prev_version.gc_overhead_ratio,
                         curr_overhead |-> curr_version.gc_overhead_ratio] >>
                ELSE <<>>])

OverheadCrossVersionAnomalies(gc_data) ==
    LET types == KeysInOrder([i \in DOMAIN gc_data |-> gc_data[i].gc_type])
    IN  Flatten([g \in DOMAIN types |->
            OverheadTypeGroupAnomalies(types[g],
                                       GroupOf(gc_data, "gc_type", types[g]))])

\* oracle_gc_overhead_anomaly(log_data, file_path); the message and
\* description strings and the percentages are left out of the records.
\* Building the record of a flagged collector divides by the median, which
\* raises ZeroDivisionError when the median is 0.
oracle_gc_overhead_anomaly(log_data, file_path) ==
    IF "test_results" \notin DOMAIN log_data THEN NoneValue
    ELSE IF log_data.test_results = <<>> THEN NoneValue
    ELSE LET gc_data == OverheadGcData(log_data.test_results)
             flagged == OverheadJdkFlagged(gc_data)
             anomalies == OverheadDebugAnomalies(gc_data)
                          \o OverheadJdkComparisonAnomalies(flagged)
                          \o OverheadCrossVersionAnomalies(gc_data)
         IN  IF gc_data = <<>> THEN NoneValue
             ELSE IF \E i \in DOMAIN flagged : flagged[i].median_ratio.num = 0
                  THEN Raised("ZeroDivisionError")
             ELSE IF anomalies = <<>> THEN NoneValue
             ELSE [type |-> "gc_overhead_anomaly",
                   file_path |-> file_path,
                   anomalies |-> anomalies,
                   summary |->
                     [total_anomalies |-> Len(anomalies),
                      debug_over_100_percent |->
                          CountOfType(anomalies, "debug_gc_overhead_over_100_percent"),
                      jdk_internal_comparisons |->
                          CountOfType(anomalies, "jdk_internal_overhead_comparison"),
                      cross_version_regressions |->
                          CountOfType(anomalies, "cross_version_overhead_regression"),
                      total_gc_data_points |-> Len(gc_data)]]

\* --------------------------------------------------------- test_failure.py
\* ENVIRONMENT_ERRORS
ENVIRONMENT_ERRORS ==
    {"NoClassDefFoundError", "ClassNotFoundException", "BootstrapMethodError",
     "UnsupportedClassVersionError", "NoSuchMethodError", "NoSuchFieldError",
     "IllegalAccessError", "InstantiationError", "VerifyError", "LinkageError",
     "java.lang.invoke", "java.lang.reflect", "sun.misc", "com.sun"}

\* error_patterns
error_patterns ==
    {"JAVA.LANG.INVOKE.", "JAVA.LANG.REFLECT.", "SUN.MISC.", "COM.SUN.",
     "UNSUPPORTED CLASS VERSION"}

\* is_environment_error(output)
\* Mutant: no output is an environment error.
is_environment_error_Never(output) == FALSE

is_environment_error(output) ==
    LET output_upper == Upper(output)
    IN  \/ \E error_keyword \in ENVIRONMENT_ERRORS :
               Contains(output_upper, Upper(error_keyword))
        \/ \E pattern \in error_patterns : Contains(output_upper, pattern)

\* Does the loop of oracle_test_failure take the result for a failed run?
RunFailed(res) ==
    ~Get(res, "success", TRUE) \/ Get(res, "exit_code", 0) # 0

\* oracle_test_failure: the entry of failed_tests for a result.
FailedTest(res) ==
    [jdk_version |-> Get(res, "jdk_version", "unknown"),
     jvm_parameters |-> Get(res, "jvm_parameters", <<>>),
     exit_code |-> Get(res, "exit_code", -1),
     output |-> Get(res, "output", ""),
     duration_ms |-> Get(res, "duration_ms", 0)]

\* oracle_test_failure: the entry of environment_failures for a result
\* (outputs stay below 200 characters, so the preview is the output).
EnvironmentFailure(res) ==
    [jdk_version |-> Get(res, "jdk_version", "unknown"),
     jvm_parameters |-> Get(res, "jvm_parameters", <<>>),
     exit_code |-> Get(res, "exit_code", -1),
     error_type |-> "environment_error",
     output_preview |-> Get(res, "output", "")]

\* oracle_test_failure(log_data, file_path)
oracle_test_failure(log_data, file_path) ==
    IF "test_results" \notin DOMAIN log_data THEN NoneValue
    ELSE IF log_data.test_results = <<>> THEN NoneValue
    ELSE LET test_results == log_data.test_results
             failing == SelectSeq(test_results, RunFailed)
             real == SelectSeq(failing, LAMBDA r :
                         ~is_environment_error(Get(r, "output", "")))
             env == SelectSeq(failing, LAMBDA r :
                         is_environment_error(Get(r, "output", "")))
             failed_tests == [i \in DOMAIN real |-> FailedTest(real[i])]
             environment_failures == [i \in DOMAIN env |-> EnvironmentFailure(env[i])]
             anomaly == [type |-> "test_failure",
                         file_path |-> file_path,
                         class_info |-> Get(log_data, "class_file_info", EmptyDict),
                         failed_tests |-> failed_tests,
                         total_tests |-> Len(test_results),
                         failed_count |-> Len(failed_tests)]
         IN  IF failed_tests = <<>> THEN NoneValue
             ELSE IF environment_failures = <<>> THEN anomaly
             ELSE Put(anomaly, "environment_failures_filtered",
                      [count |-> Len(environment_failures),
                       samples |-> SubSeq(environment_failures, 1,
                           IF Len(environment_failures) < 3
                           THEN Len(environment_failures) ELSE 3)])

\* ------------------------------------------------- result files and oracles
\* One entry of test_results as Executor.generate_log_content writes it
\* (full_cmd and test_timestamp, which no oracle compares, are left out).
TestResult(jdk_version, jvm_params, success, exit_code, duration_ms, output, gc_analysis) ==
    [jdk_version |-> jdk_version,
     GC_parameters |-> jvm_params,
     success |-> success,
     exit_code |-> exit_code,
     duration_ms |-> duration_ms,
     output |-> output,
     gc_analysis |-> gc_analysis]

\* A gc_analysis record as a parser's get_result gives it (durations in
\* microseconds).
GcAnalysis(count, total, maxstw) ==
    [total_gc_count |-> count,
     gc_stw_time_ms |-> total,
     max_stw_time_ms |-> maxstw,
     max_heap_mb |-> 256,
     gc_type_breakdown |-> EmptyDict]

\* A successful run of one second with the collector gc_flag.
GcRun(jdk_version, gc_flag, count, total, maxstw) ==
    TestResult(jdk_version, <<gc_flag, "-Xmx1g">>, TRUE, 0, 1000, "",
               GcAnalysis(count, total, maxstw))

\* The runs a result file of the GC oracles' specification is made of.
GcRuns ==
    { GcRun("17", "-XX:+UseSerialGC", 11, 600000, 600000),
      GcRun("17", "-XX:+UseSerialGC", 10, 600000, 600000),
      GcRun("17", "-XX:+UseSerialGC", 11, 10000, 1000),
      GcRun("17", "-XX:+UseG1GC", 11, 550000, 550000),
      GcRun("21", "-XX:+UseSerialGC", 11, 70000, 52000),
      GcRun("21", "-XX:+UseSerialGC", 11, 30000, 30000),
      GcRun("21", "-XX:+UseSerialGC", 11, 660000, 660000),
      GcRun("17", "-XX:+UseZGC", 1000, 1000, 10),
      GcRun("21", "-XX:+UseZGC", 1000, 10000, 80),
      GcRun("21", "-XX:+UseZGC", 1000, 70000, 500),
      TestResult("17", <<"-XX:+UseParallelGC", "-Xmx1g">>, TRUE, 0, 0, "",
                 GcAnalysis(11, 20000, 5000)),
      TestResult("17", <<"-XX:+UseShenandoahGC", "-Xmx1g">>, TRUE, 0, 0, "",
                 GcAnalysis(11, 20000, 5000)),
      TestResult("17", <<"-XX:+UseParallelGC", "-Xmx1g">>, TRUE, 0, 1000, "",
                 FixedMetrics(2, 28700, 512, "ParallelGC")),
      TestResult("21", <<"-XX:+UseG1GC", "-Xmx1g">>, FALSE, 1, 40,
                 "java.lang.AssertionError", EmptyDict),
      GcRun("11", "-XX:+UseParallelGC", 11, 10000, 1000),
      GcRun("11", "-XX:+UseParallelOldGC", 11, 200000, 100000) }

\* The runs a result file of the failure oracle's specification is made of.
FailureRuns ==
    { TestResult("17", <<"-XX:+UseG1GC">>, TRUE, 0, 40, "ok", EmptyDict),
      TestResult("17", <<"-XX:+UseG1GC">>, FALSE, 1, 40,
                 "java.lang.AssertionError", EmptyDict),
      TestResult("17", <<"-XX:+UseZGC">>, FALSE, 1, 40,
                 "java.lang.NoClassDefFoundError: A", EmptyDict),
      TestResult("21", <<"-XX:+UseG1GC">>, FALSE, -1, 30000,
                 "Timeout after 30 seconds", EmptyDict),
      TestResult("11", <<"-XX:+UseG1GC">>, FALSE, 1, 40,
                 "Unsupported class version 65.0", EmptyDict),
      TestResult("21", <<"-XX:+UseZGC">>, TRUE, 3, 40, "exit 3", EmptyDict),
      TestResult("21", <<"-XX:+UseSerialGC">>, FALSE, 0, 40,
                 "at com.sun.tools.Main", EmptyDict),
      [jdk_version |-> "25", GC_parameters |-> <<"-XX:+UseG1GC">>,
       output |-> "java.lang.AssertionError"] }

\* The oracle functions of Test_oracles/ modelled here, by anomaly type.
OracleFunctions == {"test_failure", "stw_anomaly", "gc_overhead_anomaly"}

\* oracle(log_data, str(json_file_path)) for the oracle of the given name.
ApplyOracle(name, log_data, file_path) ==
    CASE name = "test_failure" -> oracle_test_failure(log_data, file_path)
      [] name = "stw_anomaly" -> oracle_stw_anomaly(log_data, file_path)
      [] name = "gc_overhead_anomaly" ->
             oracle_gc_overhead_anomaly(log_data, file_path)

VARIABLES
    result_file,    \* the log_data of the result file under construction
    returns         \* <<>>, or one entry: what each oracle returned for log_data

oracleVars == <<result_file, returns>>

OracleInit ==
    /\ result_file = [test_results |-> <<>>]
    /\ returns = <<>>

\* A run's entry is appended to the file's test_results.
AppendResult(res) ==
    /\ returns = <<>>
    /\ Len(result_file.test_results) < MaxRuns
    /\ result_file' = [result_file EXCEPT !.test_results = Append(@, res)]
    /\ UNCHANGED returns

\* Each oracle function is called on the finished file.
ApplyOracles ==
    /\ returns = <<>>
    /\ returns' = << [name \in OracleFunctions |->
                        ApplyOracle(name, result_file, "T.log")] >>
    /\ UNCHANGED result_file

\* ------------------------------------------------------- unit normalizer
IsDigit(ch) == ch \in {"0", "1", "2", "3", "4", "5", "6", "7", "8", "9"}

DigitValue(ch) ==
    CASE ch = "0" -> 0 [] ch = "1" -> 1 [] ch = "2" -> 2 [] ch = "3" -> 3
      [] ch = "4" -> 4 [] ch = "5" -> 5 [] ch = "6" -> 6 [] ch = "7" -> 7
      [] ch = "8" -> 8 [] ch = "9" -> 9

DigitText(n) ==
    CASE n = 0 -> "0" [] n = 1 -> "1" [] n = 2 -> "2" [] n = 3 -> "3"
      [] n = 4 -> "4" [] n = 5 -> "5" [] n = 6 -> "6" [] n = 7 -> "7"
      [] n = 8 -> "8" [] n = 9 -> "9"

RECURSIVE ParseInt(_)
\* float(digits) of a run of decimal digits.
ParseInt(digits) ==
    IF Len(digits) = 0 THEN 0
    ELSE 10 * ParseInt(SubSeq(digits, 1, Len(digits) - 1))
           + DigitValue(SubSeq(digits, Len(digits), Len(digits)))

RECURSIVE IntText(_)
\* str(n) of a non-negative integer.
IntText(n) ==
    IF n < 10 THEN DigitText(n) ELSE IntText(n \div 10) \o DigitText(n % 10)

\* str.strip(), for the space character.
Strip(s) ==
    LET solid == {i \in 1..Len(s) : SubSeq(s, i, i) # " "}
    IN  IF solid = {} THEN ""
        ELSE SubSeq(s, CHOOSE i \in solid : \A j \in solid : i <= j,
                       CHOOSE i \in solid : \A j \in solid : j <= i)

\* The last position of the run of digits that starts at position i.
DigitsEnd(s, i) ==
    CHOOSE j \in i..Len(s) :
        /\ \A k \in i..j : IsDigit(SubSeq(s, k, k))
        /\ j = Len(s) \/ ~IsDigit(SubSeq(s, j + 1, j + 1))

\* The last position of the run of spaces that follows position j (j itself
\* when no space follows).
SpacesEnd(s, j) ==
    CHOOSE k \in j..Len(s) :
        /\ \A m \in (j + 1)..k : SubSeq(s, m, m) = " "
        /\ k = Len(s) \/ SubSeq(s, k + 1, k + 1) # " "

\* r'(\d+)\s*' followed by the unit matches s at position i. (The texts of
\* the model hold no decimal point, so '(?:\.\d+)?' matches nothing.)
UnitMatchesAt(s, i, unit) ==
    /\ IsDigit(SubSeq(s, i, i))
    /\ LET k == SpacesEnd(s, DigitsEnd(s, i))
       IN  /\ k + Len(unit) <= Len(s)
           /\ SubSeq(s, k + 1, k + Len(unit)) = unit

\* re.search of one pattern: <<group(1)>> of the leftmost match, <<>> when
\* the pattern matches nowhere.
UnitSearch(s, unit) ==
    LET at == {i \in 1..Len(s) : UnitMatchesAt(s, i, unit)}
    IN  IF at = {} THEN <<>>
        ELSE LET i == CHOOSE x \in at : \A y \in at : x <= y
             IN  <<SubSeq(s, i, DigitsEnd(s, i))>>

\* The units of the seven patterns, in the order they are tried; the last
\* pattern is the bare number. What the code computes as "unit", group(0)
\* with group(1) removed and stripped, is the pattern's unit.
HeapUnitPatterns == <<"GB", "G", "MB", "M", "KB", "K", "">>

\* max(1, int(value / 1024))
KbToMb(value) == Max2(1, value \div 1024)

\* BaseGCParser.extract_heap_size
extract_heap_size(heap_info) ==
    IF heap_info = "" THEN 0
    ELSE LET heap_str == Upper(Strip(heap_info))
             hits == {u \in DOMAIN HeapUnitPatterns :
                         UnitSearch(heap_str, HeapUnitPatterns[u]) # <<>>}
         IN  IF hits = {} THEN 0
             ELSE LET u == CHOOSE x \in hits : \A y \in hits : x <= y
                      unit == HeapUnitPatterns[u]
                      value == ParseInt(UnitSearch(heap_str, unit)[1])
                  IN  IF unit \in {"GB", "G"} THEN value * 1024
                      ELSE IF unit \in {"MB", "M", ""} THEN value
                      ELSE KbToMb(value)

\* The numbers, unit spellings and layouts of the heap texts a parser is
\* asked to convert.
HeapNumbers == {0, 1, 4, 512, 1023, 1024, 1536, 2048}

HeapUnitSpellings ==
    {"", "G", "GB", "M", "MB", "K", "KB", "g", "gb", "Gb", "m", "mb", "Mb",
     "k", "kb", "Kb"}

HeapLayouts == {"plain", "padded", "spaced"}

\* The text of one heap size.
HeapSizeText(n, unit, layout) ==
    CASE layout = "plain" -> IntText(n) \o unit
      [] layout = "padded" -> "  " \o IntText(n) \o unit \o " "
      [] layout = "spaced" -> IntText(n) \o " " \o unit

\* Texts that hold no number.
UnparseableTexts == {"", "   ", "abc", "K", "MB", "max"}

VARIABLES
    heap_case,    \* what the text was written from: [n, unit, layout], or
                  \* [n |-> -1] for a text without a number
    heap_arg,     \* the text handed to extract_heap_size
    heap_mb       \* <<r>>: extract_heap_size(heap_arg) returned r; <<>>
                  \* before the call

unitVars == <<heap_case, heap_arg, heap_mb>>

UnitInit ==
    /\ heap_mb = <<>>
    /\ \/ \E n \in HeapNumbers, unit \in HeapUnitSpellings, layout \in HeapLayouts :
             /\ heap_case = [n |-> n, unit |-> unit, layout |-> layout]
             /\ heap_arg = HeapSizeText(n, unit, layout)
       \/ \E text \in UnparseableTexts :
             /\ heap_case = [n |-> -1]
             /\ heap_arg = text

\* No text is being converted.
UnitIdle == heap_case = [n |-> -1] /\ heap_arg = "" /\ heap_mb = <<>>

\* parser.extract_heap_size(heap_arg)
ExtractHeapSize ==
    /\ heap_mb = <<>>
    /\ heap_mb' = <<extract_heap_size(heap_arg)>>
    /\ UNCHANGED <<heap_case, heap_arg>>

\* ---------------------------------------------------------- specifications
vars == <<parserVars, engineVars, analyzerVars, executorVars, oracleVars, unitVars>>

\* A parser instance driven over logs.
Init == ParserInit /\ EngineInit /\ AnalyzerInit /\ ExecutorInit /\ OracleInit /\ UnitIdle /\ registry = <<"oracle_stw_anomaly">>

Next ==
    \/ \E l \in LinesFor(variant) : ParseLogLine(l) /\ UNCHANGED <<engineVars, analyzerVars, executorVars, oracleVars, unitVars>>
    \/ GetResult /\ UNCHANGED <<engineVars, analyzerVars, executorVars, oracleVars, unitVars>>
    \/ Reset /\ UNCHANGED <<engineVars, analyzerVars, executorVars, oracleVars, unitVars>>

Spec == Init /\ [][Next]_vars

\* The result analyzer scanning a directory of result files.
EngineSpecInit == ParserInit /\ EngineInit /\ AnalyzerInit /\ ExecutorInit /\ OracleInit /\ UnitIdle /\ variant = "ZGC"

EngineNext ==
    \/ \E p \in {JsonPaths[i] : i \in DOMAIN JsonPaths} :
          \E f \in ResultFiles(p) : ScanFile(f) /\ UNCHANGED <<parserVars, analyzerVars, executorVars, oracleVars, unitVars>>
    \/ GenerateReport /\ UNCHANGED <<parserVars, analyzerVars, executorVars, oracleVars, unitVars>>

SpecEngine == EngineSpecInit /\ [][EngineNext]_vars

\* The log analyzer called on log paths.
AnalyzerSpecInit ==
    ParserInit /\ EngineInit /\ AnalyzerInit /\ ExecutorInit /\ OracleInit /\ UnitIdle
    /\ variant = "ZGC" /\ registry = <<"oracle_stw_anomaly">>

AnalyzerNext ==
    \E f \in LogPaths : AnalyzeLog(f) /\ UNCHANGED <<parserVars, engineVars, executorVars, oracleVars, unitVars>>

SpecAnalyzer == AnalyzerSpecInit /\ [][AnalyzerNext]_vars

\* The differential tester running one class file under the JDK variants.
ExecutorSpecInit ==
    ParserInit /\ EngineInit /\ AnalyzerInit /\ ExecutorInit /\ OracleInit /\ UnitIdle
    /\ variant = "ZGC" /\ registry = <<"oracle_stw_anomaly">>

ExecutorNext ==
    \/ SkipJdk /\ UNCHANGED <<parserVars, engineVars, analyzerVars, oracleVars, unitVars>>
    \/ \E o \in UNION {RunOutcomes(JDK_CONFIGS[i].params[j]) :
                        i \in DOMAIN JDK_CONFIGS, j \in 1..5} :
          TestVariant(o) /\ UNCHANGED <<parserVars, engineVars, analyzerVars, oracleVars, unitVars>>

SpecExecutor == ExecutorSpecInit /\ [][ExecutorNext]_vars

\* The GC oracles called on result files.
OracleSpecInit ==
    ParserInit /\ EngineInit /\ AnalyzerInit /\ ExecutorInit /\ OracleInit /\ UnitIdle
    /\ variant = "ZGC" /\ registry = <<"oracle_stw_anomaly">>

GcOracleNext ==
    \/ \E res \in GcRuns :
          AppendResult(res) /\ UNCHANGED <<parserVars, engineVars, analyzerVars, executorVars, unitVars>>
    \/ ApplyOracles /\ UNCHANGED <<parserVars, engineVars, analyzerVars, executorVars, unitVars>>

SpecGcOracles == OracleSpecInit /\ [][GcOracleNext]_vars

\* The failure oracle called on result files.
FailureOracleNext ==
    \/ \E res \in FailureRuns :
          AppendResult(res) /\ UNCHANGED <<parserVars, engineVars, analyzerVars, executorVars, unitVars>>
    \/ ApplyOracles /\ UNCHANGED <<parserVars, engineVars, analyzerVars, executorVars, unitVars>>

SpecFailureOracle == OracleSpecInit /\ [][FailureOracleNext]_vars

\* The unit normalizer called on heap texts.
UnitSpecInit ==
    ParserInit /\ EngineInit /\ AnalyzerInit /\ ExecutorInit /\ OracleInit /\ UnitInit
    /\ variant = "ZGC" /\ registry = <<"oracle_stw_anomaly">>

UnitNext ==
    ExtractHeapSize /\ UNCHANGED <<parserVars, engineVars, analyzerVars, executorVars, oracleVars>>

SpecUnits == UnitSpecInit /\ [][UnitNext]_vars

\* ============================================================ the claims
\* What the log fed since the last reset() says, read off the lines
\* themselves (pauseless parsers).
PauseIdx == {i \in 1..Len(log) : PausePatternMatch(log[i])}

\* The distinct cycle ids of the pause lines fed.
CycleIdsSeen == {log[i].id : i \in PauseIdx}

\* The sub-phase label the parser's class gives a pause line.
LabelOf(l) ==
    IF variant = "ZGC" THEN ZgcSubtype(PauseTypeText(l))
    ELSE ShenSubtype(PauseTypeText(l))

LabelsSeen == {LabelOf(log[i]) : i \in PauseIdx}

\* The summed duration of the pause lines whose index is in S.
DurOfLines(S) == SumOver([i \in S |-> log[i].dur], S)

\* The total STW time of cycle g: the sum of all its sub-phase durations.
CycleTotal(g) == DurOfLines({i \in PauseIdx : log[i].id = g})

\* The summed duration of label t inside cycle g.
CycleLabelTotal(g, t) ==
    DurOfLines({i \in PauseIdx : log[i].id = g /\ LabelOf(log[i]) = t})

HasResult == result # <<>>

PauselessResult == variant \in PauselessVariants /\ HasResult

\* C1: for ZGC and Shenandoah, after any sequence of pause lines in any
\* interleaving of cycle ids, total_gc_count is the number of distinct
\* cycle ids seen since reset, never the number of sub-phase lines.
C1_CountIsDistinctCycles ==
    PauselessResult => result[1].total_gc_count = Cardinality(CycleIdsSeen)

\* C1 witness: three pause lines of two cycles, interleaved (id x, id y,
\* id x), and the result counts two events.
C1_Witness ==
    /\ PauselessResult
    /\ Len(log) = 3 /\ PauseIdx = {1, 2, 3}
    /\ log[1].id = log[3].id /\ log[1].id # log[2].id
    /\ result[1].total_gc_count = 2

BreakdownTimeSum(r) ==
    SumOver([k \in DOMAIN r.gc_type_breakdown |-> r.gc_type_breakdown[k].stw_time_ms],
            DOMAIN r.gc_type_breakdown)

\* C3: for every parser variant and every sequence of lines, the record
\* get_result() returns has sum(gc_type_breakdown[*].stw_time_ms) equal to
\* gc_stw_time_ms.
C3_BreakdownSumsToTotal ==
    HasResult => BreakdownTimeSum(result[1]) = result[1].gc_stw_time_ms

\* C3 witness: a record with two labels in its breakdown, one of them
\* counted twice.
C3_Witness ==
    /\ HasResult
    /\ variant \notin PauselessVariants
    /\ Cardinality(DOMAIN result[1].gc_type_breakdown) = 2
    /\ \E k \in DOMAIN result[1].gc_type_breakdown :
          result[1].gc_type_breakdown[k].count = 2
    /\ result[1].gc_stw_time_ms > 0

\* C4: for every parser variant, whenever total_gc_count >= 1 the record
\* has max_stw_time_ms <= gc_stw_time_ms.
C4_MaxAtMostTotal ==
    (HasResult /\ result[1].total_gc_count >= 1) =>
        result[1].max_stw_time_ms <= result[1].gc_stw_time_ms

\* C4 witness: a record of a base parser with two events of different
\* durations, the longer one first.
C4_Witness ==
    /\ HasResult
    /\ variant \notin PauselessVariants
    /\ result[1].total_gc_count = 2
    /\ Len(log) = 2 /\ log[1].dur > log[2].dur /\ log[2].dur > 0
    /\ result[1].max_stw_time_ms = log[1].dur
    /\ result[1].max_stw_time_ms < result[1].gc_stw_time_ms

\* The pause lines fed since reset that carry label t.
LinesWithLabel(t) == {i \in PauseIdx : LabelOf(log[i]) = t}

\* C5 as stated: for the pauseless parsers gc_type_breakdown[label].count
\* is the number of pause lines with that label fed since reset (one per
\* occurrence, also for a label repeated inside one cycle) and
\* gc_type_breakdown[label].stw_time_ms the sum of their durations.
C5_BreakdownPerOccurrence ==
    PauselessResult =>
        /\ DOMAIN result[1].gc_type_breakdown = LabelsSeen
        /\ \A t \in LabelsSeen :
              /\ result[1].gc_type_breakdown[t].count = Cardinality(LinesWithLabel(t))
              /\ result[1].gc_type_breakdown[t].stw_time_ms = DurOfLines(LinesWithLabel(t))

\* C6 as stated: after any log A and reset(), feeding any log B yields
\* exactly the metrics a freshly constructed parser yields for B.
C6_ResetEqualsFresh ==
    (HasResult /\ resets >= 1) => result[1] = get_result(variant, fresh).rec

\* C7: feeding L, get_result(), reset(), feeding L again and get_result()
\* returns two identical records, for every parser variant.
C7_ReplayGivesSameResult ==
    (replaying /\ log = prevLog /\ HasResult) => result = prevResult

\* C7 witness: a log of two lines or more with a GC event and a heap
\* capacity left behind by the first pass, fed twice.
C7_Witness ==
    /\ replaying /\ log = prevLog /\ HasResult
    /\ Len(log) >= 2
    /\ result[1].total_gc_count >= 1
    /\ parser.max_heap_capacity > 0

\* ------------------------------------------------------- engine properties
\* The anomalies the scan has collected for one result file.
AnomaliesOf(path) == SelectSeq(all_anomalies, LAMBDA a : a.file_path = path)

\* The oracle calls the scan has made on one result file.
CallsOf(path) == SelectSeq(invoked, LAMBDA c : c.file_path = path)

RegisteredOracles == {registry[j] : j \in DOMAIN registry}

\* The positions in a file's anomalies that report oracle o's exception.
ErrorsNaming(anoms, o) ==
    {k \in DOMAIN anoms :
        anoms[k].type = "oracle_execution_error" /\ anoms[k].oracle_name = o}

LoadableScanned == SelectSeq(scanned, LAMBDA f : f.loadable)

\* C9: a result file that cannot be read or parsed yields exactly one
\* anomaly, of type parse_error, and no oracle call; the scan goes on, and
\* what it collects for the other files is what a scan of those files
\* alone collects.
C9_UnloadableFileOneParseError ==
    /\ \A i \in DOMAIN scanned :
          ~scanned[i].loadable =>
              LET anoms == AnomaliesOf(scanned[i].file_path)
              IN  /\ Len(anoms) = 1
                  /\ anoms[1].type = "parse_error"
                  /\ CallsOf(scanned[i].file_path) = <<>>
    /\ SelectSeq(all_anomalies,
                 LAMBDA a : \E i \in DOMAIN scanned :
                     scanned[i].loadable /\ scanned[i].file_path = a.file_path)
          = scan_and_analyze_directory(registry, LoadableScanned)

\* C9 witness: an unloadable file is scanned first, and the file after it
\* is still analyzed and has an anomaly reported.
C9_Witness ==
    /\ Len(scanned) >= 2
    /\ ~scanned[1].loadable
    /\ scanned[2].loadable
    /\ Len(registry) >= 2
    /\ AnomaliesOf(scanned[1].file_path) # <<>>
    /\ AnomaliesOf(scanned[2].file_path) # <<>>
    /\ CallsOf(scanned[2].file_path) # <<>>

\* ----------------------------------------------------- analyzer properties
\* The file name carries none of the collector-family tokens.
NoFamilyToken(f) ==
    \A t \in FamilyTokens : ~Contains(Lower(PathName(f)), t)

\* C10 as stated: analyzing a log whose file name contains no known
\* collector-family token fails with the "unrecognized format" error; it
\* never hands back a metrics record.
C10_UnknownFamilyFails ==
    \A f \in DOMAIN results :
        NoFamilyToken(f) =>
            /\ results[f].kind = "error"
            /\ results[f].error = "unrecognized format"

\* ----------------------------------------------------- executor properties
\* The recorded results that carry a gc_analysis.
Analysed == {i \in DOMAIN class_results : "gc_analysis" \in DOMAIN class_results[i]}

\* The GC log of a recorded result.
LogOf(r) == GcLogFile(r.jdk_version, r.GC_parameters)

\* C11 as stated: analyzing a log path that does not exist fails with the
\* "file not found" error; no metrics record is returned or defaulted for
\* a missing log.
C11_MissingLogFails ==
    \A i \in Analysed :
        LogOf(class_results[i]) \notin DOMAIN gc_logs
            => class_results[i].gc_analysis.kind # "metrics"

\* The parser variant of a GC name that carries a family token.
FamilyOfName(n) == IF n = "ShenandoahGC-Gen" THEN "ShenandoahGC" ELSE n

RECURSIVE FeedAll(_, _, _)
\* The parser after parse_log_line on every line of a text, in order.
FeedAll(v, p, text) ==
    IF text = <<>> THEN p
    ELSE FeedAll(v, parse_log_line(v, p, Head(text)).parser, Tail(text))

\* reset(), every line fed in order, get_result().
ParsedRecord(v, text) == get_result(v, FeedAll(v, reset(v, NewParser), text)).rec

\* C12 as stated: the record the log analyzer returns for a log file is the
\* record of the family's parser after reset(), every line of the file fed
\* in order, and get_result().
C12_AnalysisIsParserResult ==
    \A i \in Analysed :
        LET r == class_results[i]
            n == GcName(r.GC_parameters)
        IN  (LogOf(r) \in DOMAIN gc_logs /\ FamilyOfName(n) \in Variants) =>
                LET expected == ParsedRecord(FamilyOfName(n), gc_logs[LogOf(r)])
                IN  /\ r.gc_analysis.total_gc_count = expected.total_gc_count
                    /\ r.gc_analysis.gc_stw_time_ms = expected.gc_stw_time_ms
                    /\ r.gc_analysis.max_heap_mb = expected.max_heap_mb
                    /\ r.gc_analysis.gc_type_breakdown = expected.gc_type_breakdown

\* The fields of a NormalizedMetrics record.
MetricsFields ==
    {"total_gc_count", "gc_stw_time_ms", "max_stw_time_ms", "max_heap_mb",
     "gc_type_breakdown"}

\* C13 as stated: every metrics record embedded as gc_analysis into a
\* successful run's result carries all five NormalizedMetrics fields.
C13_AnalysisHasAllFields ==
    \A i \in Analysed : MetricsFields \subseteq DOMAIN class_results[i].gc_analysis

\* ------------------------------------------------------- oracle properties
\* What an oracle returned for the finished file (None before the call).
ReturnOf(name) == IF returns = <<>> THEN NoneValue ELSE returns[1][name]

\* The anomalies an oracle's return carries.
AnomaliesIn(name) ==
    IF ReturnOf(name).type = name THEN ReturnOf(name).anomalies ELSE <<>>

\* The threshold violations the STW oracle reported.
ThresholdViolations ==
    SelectSeq(AnomaliesIn("stw_anomaly"), LAMBDA a : "threshold_ms" \in DOMAIN a)

\* C14 as stated: a run with total_gc_count <= 10 never appears in a
\* threshold violation of the STW oracle, whatever its max_stw_time_ms.
C14_SmallSampleNeverViolates ==
    \A i \in DOMAIN ThresholdViolations :
        ThresholdViolations[i].total_gc_count > 10

\* The two runs of the oracle scenario: SerialGC with 600 ms and G1GC with
\* 550 ms of maximum pause, on JDK 17, with more than ten collections each.
ScenarioSerial == GcRun("17", "-XX:+UseSerialGC", 11, 600000, 600000)

ScenarioG1 == GcRun("17", "-XX:+UseG1GC", 11, 550000, 550000)

\* The runs of the file that carry a maximum pause at all.
RunsWithMaxStw ==
    SelectSeq(result_file.test_results, LAMBDA r :
        "max_stw_time_ms" \in DOMAIN Get(r, "gc_analysis", EmptyDict))

\* The oracles have been called on a file whose runs with a maximum pause
\* are the two of the scenario.
ScenarioAnalysed ==
    /\ returns # <<>>
    /\ RunsWithMaxStw \in {<<ScenarioSerial, ScenarioG1>>, <<ScenarioG1, ScenarioSerial>>}

\* C15 as stated: in the scenario the STW oracle reports exactly one
\* threshold violation, and it names SerialGC.
C15_OneViolationNamingSerial ==
    ScenarioAnalysed =>
        /\ Len(ThresholdViolations) = 1
        /\ ThresholdViolations[1].gc_type = "SerialGC"

\* C15 amended: in the scenario the STW oracle reports exactly two threshold
\* violations, one naming SerialGC against its ceiling of 500 ms and one
\* naming G1GC against its ceiling of 100 ms, and no other anomaly.
C15_TwoViolations ==
    ScenarioAnalysed =>
        /\ Len(ThresholdViolations) = 2
        /\ {<<ThresholdViolations[i].gc_type, ThresholdViolations[i].threshold_ms,
              ThresholdViolations[i].max_stw_time_ms>> : i \in 1..2}
             = {<<"SerialGC", 500000, 600000>>, <<"G1GC", 100000, 550000>>}
        /\ ReturnOf("stw_anomaly").summary.threshold_violations = 2
        /\ ReturnOf("stw_anomaly").summary.total_anomalies = 2

C15_Witness == ScenarioAnalysed /\ Len(result_file.test_results) = 3

\* The result file's runs the overhead oracle evaluates, and their fields.
OverheadRuns == OverheadGcData(result_file.test_results)

\* The evaluable collectors on the JDK version of run d.
SameJdkRuns(d) == GroupOf(OverheadRuns, "jdk_version", d.jdk_version)

\* The median overhead ratio of the evaluable collectors on d's JDK version.
SameJdkMedian(d) ==
    Median([i \in DOMAIN SameJdkRuns(d) |-> SameJdkRuns(d)[i].gc_overhead_ratio])

\* Run d's ratio exceeds the median of its JDK version times its family's
\* multiplier, at least two collectors being present.
ExceedsMedian(d) ==
    /\ Len(SameJdkRuns(d)) >= 2
    /\ FracLess(FracTimes(SameJdkMedian(d), OverheadMultiplier(d.gc_type)),
                d.gc_overhead_ratio)

\* A run or an anomaly as the collector it stands for.
CollectorOf(d) == <<d.jdk_version, d.gc_type, d.gc_stw_time_ms, d.duration_ms>>

\* The collectors the same-JDK comparison of the overhead oracle flagged.
FlaggedCollectors ==
    {CollectorOf(AnomaliesIn("gc_overhead_anomaly")[i]) :
        i \in {j \in DOMAIN AnomaliesIn("gc_overhead_anomaly") :
                  AnomaliesIn("gc_overhead_anomaly")[j].anomaly_type
                      = "jdk_internal_overhead_comparison"}}

\* C16 as stated: once the overhead oracle has been called, a collector is
\* flagged by the same-JDK comparison exactly when its ratio exceeds the
\* median of its JDK version times its family's multiplier; SerialGC has the
\* largest multiplier and the pauseless collectors the smallest.
C16_FlaggedIffAboveMedian ==
    /\ returns # <<>> =>
          FlaggedCollectors
            = {CollectorOf(OverheadRuns[i]) :
                  i \in {j \in DOMAIN OverheadRuns : ExceedsMedian(OverheadRuns[j])}}
    /\ \A t \in {"SerialGC", "ParallelGC", "G1GC", "ZGC", "ShenandoahGC", "Unknown"} :
          /\ OverheadMultiplier("SerialGC") >= OverheadMultiplier(t)
          /\ OverheadMultiplier(t) >= OverheadMultiplier("ZGC")
          /\ OverheadMultiplier("ZGC") = OverheadMultiplier("ShenandoahGC")

\* The cross-version regressions an oracle reported.
Regressions(name, t) ==
    SelectSeq(AnomaliesIn(name), LAMBDA a : Get(a, "anomaly_type", "") = t)

StwRegressions == Regressions("stw_anomaly", "cross_version_gc_regression")

OverheadRegressions ==
    Regressions("gc_overhead_anomaly", "cross_version_overhead_regression")

DenylistedOutputs ==
    {"java.lang.NoClassDefFoundError: A", "Unsupported class version 65.0",
     "at com.sun.tools.Main"}

\* The run failed: success is false or the exit code is not 0 (a missing key
\* counting as success and as exit code 0).
FailedRun(r) ==
    \/ "success" \in DOMAIN r /\ ~r.success
    \/ "exit_code" \in DOMAIN r /\ r.exit_code # 0

\* The failed runs of the file whose output carries no denylisted signature.
GenuineFailures ==
    SelectSeq(result_file.test_results,
              LAMBDA r : FailedRun(r) /\ r.output \notin DenylistedOutputs)

\* C18: once the failure oracle has been called, it returned a test_failure
\* anomaly exactly when the file has a failed run without a denylisted
\* signature; failed_tests lists exactly those runs in order, failed_count is
\* their number, and no listed run's output carries a denylisted signature.
C18_FailuresExactlyListed ==
    returns # <<>> =>
        /\ ReturnOf("test_failure").type = "test_failure" <=> GenuineFailures # <<>>
        /\ ReturnOf("test_failure").type \in {"test_failure", "None"}
        /\ ReturnOf("test_failure").type = "test_failure" =>
              /\ Len(ReturnOf("test_failure").failed_tests) = Len(GenuineFailures)
              /\ \A i \in DOMAIN GenuineFailures :
                    /\ ReturnOf("test_failure").failed_tests[i].jdk_version
                         = GenuineFailures[i].jdk_version
                    /\ ReturnOf("test_failure").failed_tests[i].exit_code
                         = GenuineFailures[i].exit_code
                    /\ ReturnOf("test_failure").failed_tests[i].output
                         = GenuineFailures[i].output
                    /\ ReturnOf("test_failure").failed_tests[i].duration_ms
                         = GenuineFailures[i].duration_ms
              /\ ReturnOf("test_failure").failed_count = Len(GenuineFailures)
              /\ ReturnOf("test_failure").total_tests = Len(result_file.test_results)

\* An anomaly was returned for a file that also holds a failed run with a
\* denylisted signature.
C18_Witness ==
    /\ ReturnOf("test_failure").type = "test_failure"
    /\ \E i \in DOMAIN result_file.test_results :
          /\ FailedRun(result_file.test_results[i])
          /\ result_file.test_results[i].output \in DenylistedOutputs

\* ------------------------------------------------------- report properties
\* The positions of the anomalies of type t in the scan's list.
PositionsOfType(t) == {i \in DOMAIN all_anomalies : all_anomalies[i].type = t}

\* The position of the k-th anomaly of type t in the scan's list.
KthOfType(t, k) ==
    CHOOSE i \in PositionsOfType(t) :
        Cardinality({j \in PositionsOfType(t) : j <= i}) = k

TypesMet == {all_anomalies[i].type : i \in DOMAIN all_anomalies}

\* C19: the report generated on the scan's list of anomalies has
\* total_anomalies equal to the list's length, anomalies_by_type[t] equal to
\* the number of anomalies of type t for exactly the types met (so the counts
\* sum to the total), affected_files equal to the number of distinct
\* file_path values, and details[t] equal to the anomalies of type t in
\* their original order.
C19_ReportCountsAndGroups ==
    report # <<>> =>
        /\ report[1].summary.total_anomalies = Len(all_anomalies)
        /\ DOMAIN report[1].summary.anomalies_by_type = TypesMet
        /\ \A t \in TypesMet :
              report[1].summary.anomalies_by_type[t] = Cardinality(PositionsOfType(t))
        /\ SumOver(report[1].summary.anomalies_by_type, TypesMet) = Len(all_anomalies)
        /\ \E files \in SUBSET {JsonPaths[i] : i \in DOMAIN JsonPaths} :
              /\ \A i \in DOMAIN all_anomalies : all_anomalies[i].file_path \in files
              /\ \A p \in files : \E i \in DOMAIN all_anomalies :
                                       all_anomalies[i].file_path = p
              /\ report[1].summary.affected_files = Cardinality(files)
        /\ DOMAIN report[1].details = TypesMet
        /\ \A t \in TypesMet :
              /\ Len(report[1].details[t]) = Cardinality(PositionsOfType(t))
              /\ \A k \in 1..Cardinality(PositionsOfType(t)) :
                    report[1].details[t][k] = all_anomalies[KthOfType(t, k)]

\* A report on several anomalies, two of one type, from two files, one of
\* them with more than one anomaly.
C19_Witness ==
    /\ report # <<>>
    /\ report[1].summary.affected_files = 2
    /\ report[1].summary.total_anomalies >= 3
    /\ \E t \in TypesMet : Cardinality(PositionsOfType(t)) >= 2
    /\ Cardinality(TypesMet) >= 2

\* ----------------------------------------------- parser frame properties
\* The lines that carry no GC event at all: heap-size and heap-usage
\* information, and text no pattern matches.
InformationalKinds ==
    {"heap_max_capacity", "max_capacity", "zheap", "shen_heap", "eps_heap",
     "resizeable", "heap_address", "exit_total", "other"}

\* The event accumulators of a parser.
EventAccumulators(p) ==
    <<p.gc_count, p.total_stw_time, p.max_stw_time, p.gc_type_breakdown, p.gc_cycles>>

\* C20: right after every parse_log_line call, the call returned false if
\* the line fed is informational, and if it returned false the gc count,
\* the total and maximum STW time, gc_type_breakdown and the cycle buffer
\* are the same as before the call.
C20_FalseLeavesAccumulators ==
    last_call # <<>> =>
        /\ log[Len(log)].kind \in InformationalKinds => ~last_call[1].ret
        /\ ~last_call[1].ret =>
              EventAccumulators(parser) = EventAccumulators(last_call[1].before)

\* A line that returned false and raised the heap capacity has just been fed
\* to a parser that had already taken a GC event.
C20_Witness ==
    /\ last_call # <<>>
    /\ ~last_call[1].ret
    /\ Len(log) >= 2
    /\ log[Len(log)].kind \in InformationalKinds
    /\ parser.max_heap_capacity > last_call[1].before.max_heap_capacity
    /\ parser.gc_count > 0 \/ DOMAIN parser.gc_cycles # {}

\* ------------------------------------------------- G1 parser properties
\* A "Pause Young (Normal) <b>M-><a>M(<c>M) <d>ms" line.
YoungNormalLine(l) ==
    l.kind = "pause_heap" /\ Contains(l.ptype, "Young (Normal)")

\* The log of a G1 parser is exactly one "Pause Young (Normal)" line.
OneYoungNormalLine ==
    variant = "G1GC" /\ Len(log) = 1 /\ YoungNormalLine(log[1])

\* C21: for a G1 parser whose log since construction or reset() is one
\* "Pause Young (Normal) bM->aM(cM) d ms" line, the call returned true and
\* get_result() gives total_gc_count 1, gc_stw_time_ms d, max_stw_time_ms d,
\* max_heap_mb max(b, a, c) and the breakdown {"Young GC (Normal)":
\* {count 1, stw_time_ms d}}.
C21_OneYoungPauseRecord ==
    OneYoungNormalLine =>
        /\ last_call # <<>> => last_call[1].ret
        /\ result # <<>> =>
              result[1] =
                  [total_gc_count    |-> 1,
                   gc_stw_time_ms    |-> log[1].dur,
                   max_stw_time_ms   |-> log[1].dur,
                   max_heap_mb       |-> Max3(log[1].a, log[1].b, log[1].c),
                   gc_type_breakdown |->
                       Put(EmptyDict, "Young GC (Normal)",
                           [count |-> 1, stw_time_ms |-> log[1].dur])]

\* get_result() was called on a G1 parser that took events and a declared
\* capacity, was reset and then fed one "Pause Young (Normal)" line.
C21_Witness ==
    /\ OneYoungNormalLine
    /\ result # <<>>
    /\ resets = 1
    /\ parser.max_heap_capacity > 0
    /\ parser.gc_count = 1

\* -------------------------------------------- Epsilon parser properties
\* The positions of the log whose line carries the word "Pause" and a
\* duration above 0.1 ms.
CountedPauses ==
    {i \in 1..Len(log) : log[i].kind \in {"pause", "pause_heap"} /\ log[i].dur > 100}

\* Text test: the label starts with "Non-GC Pause (" and ends with ")".
IsNonGcPauseLabel(label) ==
    /\ Len(label) > 14
    /\ SubSeq(label, 1, 14) = "Non-GC Pause ("
    /\ SubSeq(label, Len(label), Len(label)) = ")"

\* C22: for the Epsilon parser the gc count is the number of pause lines fed
\* since construction or reset() whose duration exceeds 0.1 ms, each counted
\* under a "Non-GC Pause (...)" label; get_result() reports that count and,
\* when it is 0, zero STW times and a breakdown with one zero-count entry.
C22_EpsilonCountsPausesAboveFloor ==
    variant = "EpsilonGC" =>
        /\ parser.gc_count = Cardinality(CountedPauses)
        /\ \A k \in DOMAIN parser.gc_type_breakdown : IsNonGcPauseLabel(k)
        /\ SumOver([k \in DOMAIN parser.gc_type_breakdown |->
                       parser.gc_type_breakdown[k].count],
                   DOMAIN parser.gc_type_breakdown) = parser.gc_count
        /\ result # <<>> =>
              /\ result[1].total_gc_count = Cardinality(CountedPauses)
              /\ CountedPauses = {} =>
                    /\ result[1].gc_stw_time_ms = 0
                    /\ result[1].max_stw_time_ms = 0
                    /\ Cardinality(DOMAIN result[1].gc_type_breakdown) = 1
                    /\ \A k \in DOMAIN result[1].gc_type_breakdown :
                          result[1].gc_type_breakdown[k] =
                              [count |-> 0, stw_time_ms |-> 0]

\* get_result() was called on an Epsilon parser fed a pause of exactly
\* 0.1 ms, a shorter one and a longer one.
C22_Witness ==
    /\ variant = "EpsilonGC"
    /\ result # <<>>
    /\ Cardinality(CountedPauses) = 1
    /\ \E i \in 1..Len(log) : log[i].kind = "pause" /\ log[i].dur = 100
    /\ \E i \in 1..Len(log) : log[i].kind = "pause" /\ log[i].dur < 100

\* get_result() was called on an Epsilon parser fed pauses of at most 0.1 ms
\* only.
C22_WitnessNoCountedPause ==
    /\ variant = "EpsilonGC"
    /\ result # <<>>
    /\ CountedPauses = {}
    /\ \E i \in 1..Len(log) : log[i].kind = "pause"

\* The committed size of the last "Heap: ... reserved, ... committed" line
\* of a log, 0 when the log has none.
LastCommitted(text) ==
    LET at == {i \in 1..Len(text) : text[i].kind = "eps_heap"}
    IN  IF at = {} THEN 0
        ELSE text[CHOOSE i \in at : \A j \in at : j <= i].b

\* C23: the max_heap_mb the Epsilon parser's get_result() returns is the
\* committed heap size if it is > 0, else the maximum observed usage if it
\* is > 0, else the declared capacity if it is > 0, else 0; on a parser that
\* was never reset the committed size is the one of the last heap line fed.
C23_EpsilonHeapPriority ==
    variant = "EpsilonGC" =>
        /\ resets = 0 => parser.committed_heap_size = LastCommitted(log)
        /\ result # <<>> =>
              result[1].max_heap_mb =
                  IF parser.committed_heap_size > 0 THEN parser.committed_heap_size
                  ELSE IF parser.max_heap_usage > 0 THEN parser.max_heap_usage
                  ELSE IF parser.max_heap_capacity > 0 THEN parser.max_heap_capacity
                  ELSE 0

\* get_result() was called on an Epsilon parser that saw a committed size
\* and a larger observed usage.
C23_Witness ==
    /\ variant = "EpsilonGC"
    /\ result # <<>>
    /\ resets = 0
    /\ parser.committed_heap_size > 0
    /\ parser.max_heap_usage > parser.committed_heap_size
    /\ result[1].max_heap_mb = parser.committed_heap_size

\* ------------------------------------------- unit normalizer properties
\* What the conversion of n with a unit is stated to be, with what it is
\* stated to be for zero kilobytes as a parameter.
StatedMb(n, unit, zero_kb) ==
    IF Upper(unit) \in {"G", "GB"} THEN n * 1024
    ELSE IF Upper(unit) \in {"M", "MB", ""} THEN n
    ELSE IF n = 0 THEN zero_kb
    ELSE Max2(1, n \div 1024)

\* C24 as stated: extract_heap_size returns n * 1024 for n with G or GB, n
\* for n with M or MB and for a bare n, for n with K or KB n / 1024 raised to
\* at least 1 when n is nonzero and 0 when n is 0, and 0 for a text without
\* a number, whatever the unit's case and the surrounding spaces.
C24_HeapToMb ==
    heap_mb # <<>> =>
        heap_mb[1] = IF heap_case.n < 0 THEN 0
                     ELSE StatedMb(heap_case.n, heap_case.unit, 0)

\* What the code does: as stated, but zero kilobytes are raised to 1 MB too.
HeapToMbZeroKbRaised ==
    heap_mb # <<>> =>
        heap_mb[1] = IF heap_case.n < 0 THEN 0
                     ELSE StatedMb(heap_case.n, heap_case.unit, 1)

\* Zero kilobytes, padded and in lower case, have been converted.
ZeroKbConverted ==
    /\ heap_mb # <<>>
    /\ heap_case.n = 0
    /\ heap_case.unit = "kb"
    /\ heap_case.layout = "padded"

\* ------------------------------------------------ heap fallback properties
\* The parsers with the capacity fallback.
FallbackVariants == {"SerialGC", "ParallelGC", "G1GC", "ZGC", "ShenandoahGC"}

\* C25: for the Serial, Parallel, G1, ZGC and Shenandoah parsers the
\* max_heap_mb get_result() returns is the declared maximum heap capacity
\* when the lines fed since construction or reset() gave no heap size and a
\* capacity > 0 was declared, and otherwise the maximum heap size those lines
\* gave (what a parser constructed at the reset holds as max_heap_usage).
C25_CapacityFallback ==
    (variant \in FallbackVariants /\ result # <<>>) =>
        result[1].max_heap_mb =
            IF fresh.max_heap_usage = 0 /\ parser.max_heap_capacity > 0
            THEN parser.max_heap_capacity
            ELSE fresh.max_heap_usage

\* get_result() was called on a ZGC parser that counted a cycle, saw no heap
\* size and had a capacity declared.
C25_Witness ==
    /\ variant = "ZGC"
    /\ result # <<>>
    /\ result[1].total_gc_count > 0
    /\ fresh.max_heap_usage = 0
    /\ result[1].max_heap_mb = parser.max_heap_capacity
    /\ parser.max_heap_capacity > 0

\* get_result() was called on a parser that saw a heap size below the
\* declared capacity.
C25_WitnessObserved ==
    /\ variant \in FallbackVariants
    /\ result # <<>>
    /\ fresh.max_heap_usage > 0
    /\ parser.max_heap_capacity > fresh.max_heap_usage

\* ------------------------------------------------ event line properties
\* The parsers whose event lines carry a heap transition.
TransitionVariants == {"SerialGC", "ParallelGC", "G1GC"}

\* C26 as stated: right after a parse_log_line call of the Serial, Parallel
\* or G1 parser, the gc count or the total STW time differs from before the
\* call only if the line carries an event label, a heap transition and a
\* duration; a line with a GC id and a duration but no heap transition
\* leaves both as they were.
C26_OnlyTransitionLinesCount ==
    (variant \in TransitionVariants /\ last_call # <<>>) =>
        \/ log[Len(log)].kind = "pause_heap"
        \/ /\ parser.gc_count = last_call[1].before.gc_count
           /\ parser.total_stw_time = last_call[1].before.total_stw_time

\* What holds for the Parallel and G1 parsers.
OnlyTransitionLinesCountButSerial ==
    (variant \in {"ParallelGC", "G1GC"} /\ last_call # <<>>) =>
        \/ log[Len(log)].kind = "pause_heap"
        \/ /\ parser.gc_count = last_call[1].before.gc_count
           /\ parser.total_stw_time = last_call[1].before.total_stw_time

\* A phase sub-line has just been fed to a Parallel or G1 parser.
PhaseLineFed ==
    /\ variant \in {"ParallelGC", "G1GC"}
    /\ last_call # <<>>
    /\ log[Len(log)].kind = "phase"

\* ------------------------------------------- cross-version properties
\* C27 as stated: every cross-version regression entry of the STW oracle
\* and of the GC-overhead oracle names an earlier JDK version numerically
\* lower than the later one; two runs of one collector family on the same
\* JDK version are never reported as a version regression.
C27_RegressionsAcrossVersions ==
    /\ \A i \in DOMAIN StwRegressions :
          JdkSortKey(StwRegressions[i].prev_jdk_version)
              < JdkSortKey(StwRegressions[i].curr_jdk_version)
    /\ \A i \in DOMAIN OverheadRegressions :
          JdkSortKey(OverheadRegressions[i].prev_jdk_version)
              < JdkSortKey(OverheadRegressions[i].curr_jdk_version)

\* What holds: the earlier version of an entry is never the higher one.
RegressionsNeverBackwards ==
    /\ \A i \in DOMAIN StwRegressions :
          JdkSortKey(StwRegressions[i].prev_jdk_version)
              <= JdkSortKey(StwRegressions[i].curr_jdk_version)
    /\ \A i \in DOMAIN OverheadRegressions :
          JdkSortKey(OverheadRegressions[i].prev_jdk_version)
              <= JdkSortKey(OverheadRegressions[i].curr_jdk_version)

\* The oracles were called on the ParallelGC and ParallelOldGC runs of JDK 11
\* alone.
ParallelPairOnJdk11 ==
    /\ returns # <<>>
    /\ Len(result_file.test_results) = 2
    /\ \A i \in 1..2 : result_file.test_results[i].jdk_version = "11"
    /\ StwRegressions # <<>>
    /\ OverheadRegressions # <<>>

\* ------------------------------------------ overhead oracle's return
\* Every run of the result file carries a gc_analysis with the GC time and
\* the GC count, next to its duration and JDK version.
RunsCarryOverheadFields ==
    \A i \in DOMAIN result_file.test_results :
        {"gc_stw_time_ms", "total_gc_count"}
            \subseteq DOMAIN result_file.test_results[i].gc_analysis

\* C28 as stated: called on a result file whose runs carry numeric
\* gc_stw_time_ms, total_gc_count and duration_ms and a numeric jdk_version,
\* oracle_gc_overhead_anomaly returns None or a gc_overhead_anomaly record
\* and never raises, also when a JDK group's median ratio is 0 or a run's
\* duration is 0.
C28_OverheadOracleNeverRaises ==
    (returns # <<>> /\ RunsCarryOverheadFields) =>
        ReturnOf("gc_overhead_anomaly").type \in {"None", "gc_overhead_anomaly"}

\* What holds: the oracle raises only when a collector is flagged against a
\* median of 0.
OverheadOracleRaisesOnlyOnZeroMedian ==
    (returns # <<>> /\ ReturnOf("gc_overhead_anomaly").type = "raise") =>
        \E i \in DOMAIN OverheadRuns :
            /\ SameJdkMedian(OverheadRuns[i]).num = 0
            /\ OverheadRuns[i].gc_overhead_ratio.num > 0

\* ------------------------------------------------ log naming properties
\* The collector family the log analyzer recognizes a log path as: the label
\* of the record it returns.
AnalyzerFamily(gc_log_file) ==
    CHOOSE k \in DOMAIN parse_gc_log(gc_log_file).gc_type_breakdown : TRUE

\* The runs recorded so far whose GC log was analysed.
AnalysedRuns ==
    {i \in DOMAIN class_results : "gc_analysis" \in DOMAIN class_results[i]}

\* C29 as stated: for every recorded run whose GC log was analysed, the log
\* analyzer recognizes the generated file name jdk<N>-<gc_name>.log as the
\* collector family the oracles assign to the run's GC parameters, and never
\* as the unknown collector.
C29_LogNameFamilyMatchesOracles ==
    \A i \in AnalysedRuns :
        LET res == class_results[i]
            family == AnalyzerFamily(GcLogFile(res.jdk_version, res.GC_parameters))
        IN  /\ family # "UnknownGC"
            /\ family = classify_gc_type(res)
            /\ res.gc_analysis = parse_gc_log(GcLogFile(res.jdk_version, res.GC_parameters))

\* What holds: the families agree for every configured combination but the
\* ParallelOldGC and EpsilonGC ones.
LogNameFamilyMatchesButTwo ==
    \A c \in DOMAIN JDK_CONFIGS : \A j \in DOMAIN JDK_CONFIGS[c].params :
        LET jvm_params == JDK_CONFIGS[c].params[j]
            family == AnalyzerFamily(GcLogFile(JDK_CONFIGS[c].jdk, jvm_params))
        IN  GcName(jvm_params) \notin {"ParallelOldGC", "EpsilonGC"} =>
                /\ family # "UnknownGC"
                /\ family = classify_gc_type([GC_parameters |-> jvm_params])

\* --------------------------------------------- get_result() properties
\* C30: for the ZGC and Shenandoah parsers, whatever get_result() calls were
\* made before, between the parse_log_line calls, get_result() returns the
\* record that a parser with the same parse_log_line and reset() history and
\* no earlier get_result() call returns; a record just returned is returned
\* again by the next call.
C30_GetResultIdempotent ==
    variant \in PauselessVariants =>
        /\ get_result(variant, parser).rec = get_result(variant, unread).rec
        /\ result # <<>> => get_result(variant, parser).rec = result[1]

\* A pauseless parser was read when it held one cycle, and a line of a
\* second cycle has been fed since.
C30_Witness ==
    /\ variant \in PauselessVariants
    /\ last_call # <<>>
    /\ parser.gc_count = 1
    /\ Cardinality(DOMAIN parser.gc_cycles) = 2
    /\ unread.gc_count = 0

====
